---- MODULE Spec2Model ----
(***************************************************************************)
(* Profile & compatibility matching engine of sanabackend.                 *)
(*                                                                         *)
(* Part 1: the trait merge engine (sana_chat.merge_into_psych_map,         *)
(* sana_psych_worker.merge_into_psych_map, sana_psych_backfill.merge_traits)*)
(* and the profile vectorizer (psych_map_to_plaintext,                     *)
(* embed_and_store_user_vector), with the users row they read and write.   *)
(*                                                                         *)
(* Conventions.                                                            *)
(*  - A Python str is a sequence of one-character strings, so that strip,  *)
(*    lower, re.sub and sorted() are computed and not assumed.             *)
(*  - A confidence is an integer number of hundredths (0.50 is 50), the    *)
(*    margin 0.05 is 5.  For the confidences used here (0.50, 0.52, 0.54,  *)
(*    0.55) the comparisons in hundredths give what the code's double      *)
(*    arithmetic gives.                                                    *)
(*  - A psych_map is a function from key strings to JSON values; a JSON    *)
(*    object is a record tagged kind = "dict", a JSON array a record       *)
(*    tagged kind = "list" whose field items is the sequence.              *)
(*  - Extracted keys are taken from RawKeys; none of them ends in          *)
(*    "_alternatives".                                                     *)
(***************************************************************************)
EXTENDS FiniteSets, Integers, Sequences, TLC

\* ------------------------------------------------------------------------
\* Bounds
\* ------------------------------------------------------------------------
MaxCalls == 2
MaxMerged == 3
MaxStream == 10
MaxRequests == 2

\* ------------------------------------------------------------------------
\* Python values
\* ------------------------------------------------------------------------
None == "<None>"

Whitespace == {" ", "\t"}

lower_char(c) == IF c = "M" THEN "m" ELSE IF c = "X" THEN "x" ELSE c

lower(s) == [i \in 1..Len(s) |-> lower_char(s[i])]

RECURSIVE lstrip(_)
lstrip(s) == IF s # <<>> /\ Head(s) \in Whitespace THEN lstrip(Tail(s)) ELSE s

RECURSIVE rstrip(_)
rstrip(s) == IF s # <<>> /\ s[Len(s)] \in Whitespace THEN rstrip(SubSeq(s, 1, Len(s) - 1)) ELSE s

strip(s) == rstrip(lstrip(s))

\* re.sub(r"\s+", "_", s): every maximal run of whitespace becomes one "_"
RECURSIVE re_sub_ws(_)
re_sub_ws(s) ==
    IF s = <<>> THEN <<>>
    ELSE IF Head(s) \in Whitespace THEN <<"_">> \o re_sub_ws(lstrip(s))
    ELSE <<Head(s)>> \o re_sub_ws(Tail(s))

\* s.replace(" ", "_"): every blank becomes "_", a tab stays
replace_blank(s) == [i \in 1..Len(s) |-> IF s[i] = " " THEN "_" ELSE s[i]]

\* truthiness of an extracted value (a str or None)
truthy(val) == val # None /\ val # ""

EmptyMap == [k \in {} |-> 0]

Put(m, k, v) == [x \in (DOMAIN m) \cup {k} |-> IF x = k THEN v ELSE m[x]]

\* seq[-n:]
LastN(seq, n) == IF Len(seq) <= n THEN seq ELSE SubSeq(seq, Len(seq) - n + 1, Len(seq))

IsPrefix(s, t) == Len(s) <= Len(t) /\ SubSeq(t, 1, Len(s)) = s

\* ------------------------------------------------------------------------
\* sana_chat.merge_into_psych_map
\* ------------------------------------------------------------------------
Margin == 5
AltCap == 8

AltSuffix == <<"_", "a", "l", "t", "e", "r", "n", "a", "t", "i", "v", "e", "s">>

IsDict(v) == v.kind = "dict"

IsList(v) == v.kind = "list"

\* entry.setdefault("history", [])
setdefault_history(entry) == IF "history" \in DOMAIN entry THEN entry.history ELSE <<>>

new_entry_no_history(val, conf, now) ==
    [kind |-> "dict", value |-> val, confidence |-> conf]

new_entry(val, conf, now) ==
    [kind |-> "dict", value |-> val, confidence |-> conf,
     history |-> <<[time |-> now, value |-> val, confidence |-> conf]>>]

item_discarded(key, val) == key = <<>> \/ val = None \/ val = ""

overwrite_cond_strict(conf, existing_conf) == conf > existing_conf

overwrite_cond(conf, existing_conf) == conf >= existing_conf + Margin

Abs(x) == IF x < 0 THEN -x ELSE x

ambiguous_cond_same_value(conf, existing_conf, val, entry) ==
    Abs(conf - existing_conf) < Margin /\ val = entry.value

ambiguous_cond_above(conf, existing_conf, val, entry) ==
    conf >= existing_conf /\ conf - existing_conf < Margin /\ val # entry.value

ambiguous_cond(conf, existing_conf, val, entry) ==
    Abs(conf - existing_conf) < Margin /\ val # entry.value

cap_alts_first(alts) == IF Len(alts) <= AltCap THEN alts ELSE SubSeq(alts, 1, AltCap)

cap_alts(alts) == LastN(alts, AltCap)

kept_confidence_new(existing_conf, conf) == conf

kept_confidence(existing_conf, conf) == IF existing_conf >= conf THEN existing_conf ELSE conf

\* the body of the for loop, for one extracted item
merge_item(out, it, now) ==
    LET key == strip(it.key)
        val == it.value
        conf == it.confidence
        rec == [time |-> now, value |-> val, confidence |-> conf]
    IN  IF item_discarded(key, val) THEN out
        ELSE LET key_slug == re_sub_ws(lower(strip(key)))
             IN  IF key_slug \notin DOMAIN out
                 THEN Put(out, key_slug, new_entry(val, conf, now))
                 ELSE LET entry == out[key_slug]
                          existing_conf == entry.confidence
                          hist == Append(setdefault_history(entry), rec)
                      IN  IF overwrite_cond(conf, existing_conf)
                          THEN Put(out, key_slug,
                                   [kind |-> "dict", value |-> val, confidence |-> conf,
                                    history |-> hist])
                          ELSE IF ambiguous_cond(conf, existing_conf, val, entry)
                          THEN LET alt_key == key_slug \o AltSuffix
                                   alts == IF alt_key \in DOMAIN out THEN out[alt_key].items ELSE <<>>
                                   alts2 == Append(alts, [value |-> val, confidence |-> conf, time |-> now])
                               IN  Put(Put(out, alt_key, [kind |-> "list", items |-> cap_alts(alts2)]),
                                       key_slug,
                                       [kind |-> "dict", value |-> entry.value,
                                        confidence |-> entry.confidence, history |-> hist])
                          ELSE Put(out, key_slug,
                                   [kind |-> "dict", value |-> entry.value,
                                    confidence |-> kept_confidence(existing_conf, conf),
                                    history |-> hist])

\* out = json.loads(json.dumps(existing or {})): a fresh object, never the argument
deep_copy_alias(existing) == [map |-> existing, alias |-> TRUE]

deep_copy(existing) == [map |-> existing, alias |-> FALSE]

RECURSIVE merge_items(_, _, _)
merge_items(out, items, now) ==
    IF items = <<>> THEN out
    ELSE merge_items(merge_item(out, Head(items), now), Tail(items), now)

merge_into_psych_map(existing, items, now) == merge_items(deep_copy(existing).map, items, now)

\* ------------------------------------------------------------------------
\* sana_psych_backfill.merge_traits
\* ------------------------------------------------------------------------
is_empty_psych_map(value) == value = EmptyMap

\* updated = existing or {}: the argument itself unless it is empty
existing_or_new(existing) == [map |-> existing, alias |-> existing # EmptyMap]

merge_traits_item(updated, t) ==
    LET key == replace_blank(lower(strip(t.key)))
        val == t.value
        conf == t.confidence
    IN  IF key # <<>> /\ truthy(val)
        THEN Put(updated, key, [kind |-> "dict", value |-> val, confidence |-> conf])
        ELSE updated

\* ------------------------------------------------------------------------
\* sana_psych_worker.merge_into_psych_map
\* ------------------------------------------------------------------------
worker_merge_item(out, it, now) ==
    LET key == replace_blank(lower(strip(it.key)))
        val == it.value
        conf == it.confidence
    IN  IF key = <<>> \/ ~truthy(val) THEN out
        ELSE Put(out, key, new_entry(val, conf, now))

RECURSIVE worker_merge_items(_, _, _)
worker_merge_items(out, items, now) ==
    IF items = <<>> THEN out
    ELSE worker_merge_items(worker_merge_item(out, Head(items), now), Tail(items), now)

worker_merge_into_psych_map(existing, items, now) ==
    worker_merge_items(deep_copy(existing).map, items, now)

\* ------------------------------------------------------------------------
\* json.dumps, as a sequence of tokens
\* ------------------------------------------------------------------------
RECURSIVE json_records(_)
json_records(recs) ==
    IF recs = <<>> THEN <<>>
    ELSE <<"{", Head(recs).value, ToString(Head(recs).confidence), ToString(Head(recs).time), "}">>
         \o (IF Tail(recs) = <<>> THEN <<>> ELSE <<",", " ">> \o json_records(Tail(recs)))

json_list(recs) == <<"[">> \o json_records(recs) \o <<"]">>

json_dumps(v) ==
    IF IsDict(v)
    THEN <<"{", v.value, ToString(v.confidence)>> \o json_list(setdefault_history(v)) \o <<"}">>
    ELSE json_list(v.items)

RECURSIVE json_members(_, _)
json_members(keys, pm) ==
    IF keys = <<>> THEN <<>>
    ELSE Head(keys) \o <<":", " ">> \o json_dumps(pm[Head(keys)])
         \o (IF Tail(keys) = <<>> THEN <<>> ELSE <<",", " ">> \o json_members(Tail(keys), pm))

\* json.dumps(psych_map) of a dict whose keys iterate in the order `keys`
json_dumps_map(keys, pm) == <<"{">> \o json_members(keys, pm) \o <<"}">>

\* ------------------------------------------------------------------------
\* sana_chat.psych_map_to_plaintext
\* ------------------------------------------------------------------------
ord(c) ==
    CASE c = "\t" -> 9 [] c = " " -> 32 [] c = "_" -> 95
      [] c = "a" -> 97 [] c = "e" -> 101 [] c = "i" -> 105 [] c = "l" -> 108
      [] c = "m" -> 109 [] c = "n" -> 110 [] c = "r" -> 114 [] c = "s" -> 115
      [] c = "t" -> 116 [] c = "v" -> 118 [] c = "x" -> 120
      [] OTHER -> 0

\* a < b for Python strings
RECURSIVE str_lt(_, _)
str_lt(a, b) ==
    IF b = <<>> THEN FALSE
    ELSE IF a = <<>> THEN TRUE
    ELSE IF ord(Head(a)) < ord(Head(b)) THEN TRUE
    ELSE IF ord(Head(a)) > ord(Head(b)) THEN FALSE
    ELSE str_lt(Tail(a), Tail(b))

RECURSIVE insort(_, _)
insort(s, k) ==
    IF s = <<>> THEN <<k>>
    ELSE IF str_lt(k, Head(s)) THEN <<k>> \o s
    ELSE <<Head(s)>> \o insort(Tail(s), k)

RECURSIVE sort_keys(_)
sort_keys(keys) == IF keys = <<>> THEN <<>> ELSE insort(sort_keys(Tail(keys)), Head(keys))

sorted_unsorted(keys) == keys

\* sorted(pm.keys())
sorted(keys) == sort_keys(keys)

plaintext_part(k, v) ==
    IF IsDict(v) /\ "value" \in DOMAIN v
    THEN k \o <<":", " ">> \o <<v.value>>
    ELSE k \o <<":", " ">> \o json_dumps(v)

RECURSIVE join_parts(_, _)
join_parts(keys, pm) ==
    IF keys = <<>> THEN <<>>
    ELSE plaintext_part(Head(keys), pm[Head(keys)])
         \o (IF Tail(keys) = <<>> THEN <<>> ELSE <<".", " ">> \o join_parts(Tail(keys), pm))

\* `keys` is the iteration order of the dict pm
psych_map_to_plaintext(keys, pm) ==
    IF pm = EmptyMap THEN <<>> ELSE join_parts(sorted(keys), pm)

\* ------------------------------------------------------------------------
\* to_thread_retry (sana_chat.py, sana_psych_worker.py)
\* ------------------------------------------------------------------------
\* retries=3, the default every caller uses
Retries == 3

\* outcomes[i] says whether the i-th invocation of fn returns.  The result
\* is the index of the invocation whose value is returned or whose exception
\* is raised, with the number of invocations made and the time slept, in
\* tenths of a second (backoff=0.4, doubled after every failure).
to_thread_retry_once(outcomes, retries) ==
    IF outcomes[1] THEN [kind |-> "return", value |-> 1, calls |-> 1, slept |-> 0]
    ELSE [kind |-> "raise", error |-> 1, calls |-> 1, slept |-> 4]

\* outcomes[i] tells whether the i-th invocation of fn returns.  The call
\* returns the result of an invocation (value is its number) or raises the
\* exception of one (error is its number); calls counts the invocations and
\* slept the tenths of a second spent in asyncio.sleep(0.4 * 2 ** i).
to_thread_retry(outcomes, retries) ==
    LET RECURSIVE attempt(_, _)
        attempt(i, slept) ==
            IF i >= retries
            THEN [kind |-> "raise", error |-> retries, calls |-> retries, slept |-> slept]
            ELSE IF outcomes[i + 1]
            THEN [kind |-> "return", value |-> i + 1, calls |-> i + 1, slept |-> slept]
            ELSE attempt(i + 1, slept + 4 * (2 ^ i))
    IN attempt(0, 0)

\* fn fails its first n invocations and returns from then on
FailingFirst(n) == [i \in 1..(Retries + 1) |-> i > n]

\* ------------------------------------------------------------------------
\* Embedding service and sana_chat.embed_and_store_user_vector
\* ------------------------------------------------------------------------
NullVector == [model |-> "", input |-> <<>>]

embed_sync(text) == [model |-> "text-embedding-3-small", input |-> text]

embed_and_store_effect_logged(embed_ok, write_ok) == "logged"

embed_and_store_effect_raise(embed_ok, write_ok) ==
    IF embed_ok /\ write_ok THEN "stored" ELSE "raised"

\* what the try/except leaves: the update when both calls succeed, else a
\* log line ("raised" is an exception that leaves the function)
embed_and_store_effect(embed_ok, write_ok) ==
    IF embed_ok /\ write_ok THEN "stored" ELSE "logged"

\* ------------------------------------------------------------------------
\* State
\* ------------------------------------------------------------------------
VARIABLES
    m_prof,      \* the psych_map handed from one merge call to the next
    m_pc,        \* "idle", "chat" (in merge_into_psych_map), "traits" (in merge_traits)
    m_existing,  \* the caller's object passed as `existing`, as the caller sees it
    m_out,       \* the function's working object: [map, alias]
    m_now,       \* now_iso() of the running call
    m_prev,      \* the working map before the last loop iteration
    m_item,      \* the item of the last loop iteration
    m_count,     \* loop iterations run so far
    m_skipped,   \* every item of the running call had an empty key or an empty/null value
    m_near,      \* the near-tie items met so far for StreamKey, in arrival order
    db_psych_map,     \* users.psych_map of the user
    db_psych_vector,  \* users.psych_vector of the user
    t_pc,        \* per request: where it stands
    t_snap,      \* per request: psych_map as read by the handler
    t_upd,       \* per request: updated_psych_map (kept by a chat task that stored it)
    t_order,     \* per request: iteration order of the keys of updated_psych_map
    t_text,      \* per request: the text sent to the embedding service
    t_fault,     \* per request: the external call that failed, "" if none
    t_end,       \* per request: how it ended
    clock,       \* now_iso(), as a count of merges
    requests,    \* requests received so far
    fn,          \* a function called on its own: its name
    args,        \* its arguments
    ret,         \* what it returned or raised, NoResult before it has
    users,       \* the users table as a read-only endpoint finds it
    rq,          \* the arguments of the request to that endpoint
    rs,          \* its answer, NoResult before it has answered
    user_actions,   \* the user_actions table: the action stored for each pair of users
    notifications   \* the notifications table, in insertion order

merge_vars == <<m_prof, m_pc, m_existing, m_out, m_now, m_prev, m_item, m_count, m_skipped, m_near>>

store_vars == <<db_psych_map, db_psych_vector, t_pc, t_snap, t_upd, t_order, t_text, t_fault, t_end, clock, requests>>

call_vars == <<fn, args, ret>>

query_vars == <<users, rq, rs, user_actions, notifications>>

vars == <<merge_vars, store_vars, call_vars, query_vars>>

MaxNotifications == 2

\* the two users the portal's actions are recorded for
ActionUsers == {"a", "b"}

\* both tables are empty: "" stands for a pair that has no row
IdleActions ==
    /\ user_actions = [pair \in ActionUsers \X ActionUsers |-> ""]
    /\ notifications = <<>>

\* what ret and rs hold before the call has returned
NoResult == [kind |-> "none"]

\* no function is called on its own
IdleCalls == fn = "" /\ args = <<>> /\ ret = NoResult

\* no read-only endpoint is called
IdleQueries == users = <<>> /\ rq = NoResult /\ rs = NoResult /\ IdleActions

\* ------------------------------------------------------------------------
\* Inputs of the merge functions
\* ------------------------------------------------------------------------
RawKeys == {<<>>, <<" ">>, <<" ", "M">>, <<"m", " ", "\t", "x">>}

MergeVals == {"A", "B", "", None}

MergeConfs == {50, 54, 55}

MergeItems == [key : RawKeys, value : MergeVals, confidence : MergeConfs]

NoItem == [key |-> <<>>, value |-> None, confidence |-> 0]

EmptyKeyOrValue(it) == it.key = <<>> \/ it.value = "" \/ it.value = None

\* ------------------------------------------------------------------------
\* The merge functions, one loop iteration per step
\* ------------------------------------------------------------------------
Tasks == {1, 2}

InitStore ==
    /\ db_psych_map = EmptyMap
    /\ db_psych_vector = NullVector
    /\ t_pc = [t \in Tasks |-> "idle"]
    /\ t_snap = [t \in Tasks |-> EmptyMap]
    /\ t_upd = [t \in Tasks |-> EmptyMap]
    /\ t_order = [t \in Tasks |-> <<>>]
    /\ t_text = [t \in Tasks |-> <<>>]
    /\ t_fault = [t \in Tasks |-> ""]
    /\ t_end = [t \in Tasks |-> ""]
    /\ clock = 0
    /\ requests = 0

InitProfile ==
    /\ m_prof = EmptyMap
    /\ m_pc = "idle"
    /\ m_existing = EmptyMap
    /\ m_out = [map |-> EmptyMap, alias |-> FALSE]
    /\ m_now = 0
    /\ m_prev = EmptyMap
    /\ m_item = NoItem
    /\ m_count = 0
    /\ m_skipped = TRUE
    /\ m_near = <<>>

InitMerge == InitProfile /\ InitStore /\ IdleCalls /\ IdleQueries

\* bg_save calls merge_into_psych_map(psych_map, extracted)
MergeCall ==
    /\ m_pc = "idle"
    /\ m_now < MaxCalls
    /\ m_pc' = "chat"
    /\ m_now' = m_now + 1
    /\ m_existing' = m_prof
    /\ m_out' = deep_copy(m_prof)
    /\ m_prev' = m_prof
    /\ m_item' = NoItem
    /\ m_skipped' = TRUE
    /\ UNCHANGED <<m_prof, m_count, m_near>>
    /\ UNCHANGED <<store_vars, call_vars, query_vars>>

StreamKey == <<"m">>

\* the claim's notion of a near-tie item for StreamKey: the trait exists, the
\* confidences are less than the margin apart and the values differ
IsNearTie(out, it) ==
    LET k == re_sub_ws(lower(strip(it.key)))
    IN  /\ it.key # <<>> /\ it.value # "" /\ it.value # None
        /\ k = StreamKey
        /\ k \in DOMAIN out
        /\ Abs(it.confidence - out[k].confidence) < Margin
        /\ it.value # out[k].value

LoopStep(it, bound) ==
    /\ m_pc = "chat"
    /\ m_count < bound
    /\ LET new == merge_item(m_out.map, it, m_now)
       IN  /\ m_out' = [m_out EXCEPT !.map = new]
           /\ m_existing' = IF m_out.alias THEN new ELSE m_existing
    /\ m_prev' = m_out.map
    /\ m_item' = it
    /\ m_count' = m_count + 1
    /\ m_skipped' = (m_skipped /\ EmptyKeyOrValue(it))
    /\ m_near' = IF IsNearTie(m_out.map, it)
                 THEN Append(m_near, [value |-> it.value, confidence |-> it.confidence, time |-> m_now])
                 ELSE m_near
    /\ UNCHANGED <<m_prof, m_pc, m_now>>
    /\ UNCHANGED <<store_vars, call_vars, query_vars>>

MergeStep(it) == LoopStep(it, MaxMerged)

\* return out; the caller keeps it as the user's psych_map
MergeReturn ==
    /\ m_pc = "chat"
    /\ m_pc' = "idle"
    /\ m_prof' = m_out.map
    /\ UNCHANGED <<m_existing, m_out, m_now, m_prev, m_item, m_count, m_skipped, m_near>>
    /\ UNCHANGED <<store_vars, call_vars, query_vars>>

\* process_user calls merge_traits({}, traits) for a user whose psych_map is empty
TraitsCall ==
    /\ m_pc = "idle"
    /\ is_empty_psych_map(m_prof)
    /\ m_now < MaxCalls
    /\ m_pc' = "traits"
    /\ m_now' = m_now + 1
    /\ m_existing' = EmptyMap
    /\ m_out' = existing_or_new(EmptyMap)
    /\ m_prev' = EmptyMap
    /\ m_item' = NoItem
    /\ m_skipped' = TRUE
    /\ UNCHANGED <<m_prof, m_count, m_near>>
    /\ UNCHANGED <<store_vars, call_vars, query_vars>>

TraitsStep(t) ==
    /\ m_pc = "traits"
    /\ m_count < MaxMerged
    /\ LET new == merge_traits_item(m_out.map, t)
       IN  /\ m_out' = [m_out EXCEPT !.map = new]
           /\ m_existing' = IF m_out.alias THEN new ELSE m_existing
    /\ m_prev' = m_out.map
    /\ m_item' = t
    /\ m_count' = m_count + 1
    /\ m_skipped' = (m_skipped /\ EmptyKeyOrValue(t))
    /\ UNCHANGED <<m_prof, m_pc, m_now, m_near>>
    /\ UNCHANGED <<store_vars, call_vars, query_vars>>

TraitsReturn ==
    /\ m_pc = "traits"
    /\ m_pc' = "idle"
    /\ UNCHANGED <<m_prof, m_existing, m_out, m_now, m_prev, m_item, m_count, m_skipped, m_near>>
    /\ UNCHANGED <<store_vars, call_vars, query_vars>>

NextMerge ==
    \/ MergeCall
    \/ \E it \in MergeItems : MergeStep(it)
    \/ MergeReturn
    \/ TraitsCall
    \/ \E t \in MergeItems : TraitsStep(t)
    \/ TraitsReturn

SpecMerge == InitMerge /\ [][NextMerge]_vars

\* ------------------------------------------------------------------------
\* A long run of items for one trait (the alternatives cap)
\* ------------------------------------------------------------------------
StreamItems ==
    {[key |-> <<" ", "M">>, value |-> "B", confidence |-> 52],
     [key |-> <<" ", "M">>, value |-> "C", confidence |-> 50],
     [key |-> <<" ", "M">>, value |-> "A", confidence |-> 54]}

StreamStep(it) == LoopStep(it, MaxStream)

\* one merge call whose extraction list holds up to MaxStream items
StreamCall == m_now = 0 /\ MergeCall

NextAlts ==
    \/ StreamCall
    \/ \E it \in StreamItems : StreamStep(it)
    \/ MergeReturn

SpecAlts == InitMerge /\ [][NextAlts]_vars

\* ------------------------------------------------------------------------
\* Properties of the merge
\* ------------------------------------------------------------------------
\* the slug of the item of the last loop iteration
LastKey == re_sub_ws(lower(strip(m_item.key)))

\* the last iteration of merge_into_psych_map processed a kept item whose
\* normalized key was already in the map
ChatStepOnExisting ==
    /\ m_pc = "chat"
    /\ m_item # NoItem
    /\ strip(m_item.key) # <<>> /\ m_item.value # "" /\ m_item.value # None
    /\ LastKey \in DOMAIN m_prev

LastRecord == [time |-> m_now, value |-> m_item.value, confidence |-> m_item.confidence]

Delta == m_item.confidence - m_prev[LastKey].confidence

\* C1: for an item whose normalized key exists, a confidence of at least the
\* existing one plus the margin replaces value and confidence and appends
\* exactly one history record; without that advantage the value is unchanged.
C1_OverwriteIffMargin ==
    ChatStepOnExisting =>
        LET old == m_prev[LastKey]
            new == m_out.map[LastKey]
        IN  /\ Delta >= Margin =>
                /\ new.value = m_item.value
                /\ new.confidence = m_item.confidence
                /\ new.history = Append(old.history, LastRecord)
            /\ Delta < Margin => new.value = old.value
            /\ new.value # old.value => Delta >= Margin

C1_Witness ==
    /\ ChatStepOnExisting
    /\ Delta >= Margin
    /\ m_item.value # m_prev[LastKey].value
    /\ m_out.map[LastKey].value = m_item.value

\* the case of C2: the new confidence is higher by less than the margin and
\* the value differs
C2_Case == ChatStepOnExisting /\ Delta > 0 /\ Delta < Margin /\ m_item.value # m_prev[LastKey].value

\* C2 as stated: the value is kept, the confidence is raised to the new
\* confidence and the item is appended to history.
C2_RaisesConfidence ==
    C2_Case =>
        /\ m_out.map[LastKey].value = m_prev[LastKey].value
        /\ m_out.map[LastKey].confidence = m_item.confidence
        /\ m_out.map[LastKey].history = Append(m_prev[LastKey].history, LastRecord)

\* C2 amended: the value is kept, the confidence stays the existing one and
\* the item is appended to history.
C2_KeepsConfidence ==
    C2_Case =>
        /\ m_out.map[LastKey].value = m_prev[LastKey].value
        /\ m_out.map[LastKey].confidence = m_prev[LastKey].confidence
        /\ m_out.map[LastKey].history = Append(m_prev[LastKey].history, LastRecord)

C2_Witness ==
    /\ C2_Case
    /\ m_prev[LastKey].value = "A" /\ m_prev[LastKey].confidence = 50
    /\ m_item.value = "B" /\ m_item.confidence = 54
    /\ m_out.map[LastKey].confidence = 50

\* C3: an item within the margin of the existing confidence (either side)
\* whose value differs is recorded as the newest alternatives record of the
\* trait and in its history, and the value stays.
C3_AmbiguityCaptured ==
    (ChatStepOnExisting /\ Abs(Delta) < Margin /\ m_item.value # m_prev[LastKey].value) =>
        LET alt_key == LastKey \o AltSuffix
        IN  /\ alt_key \in DOMAIN m_out.map
            /\ IsList(m_out.map[alt_key])
            /\ Len(m_out.map[alt_key].items) >= 1
            /\ m_out.map[alt_key].items[Len(m_out.map[alt_key].items)] =
                   [value |-> m_item.value, confidence |-> m_item.confidence, time |-> m_now]
            /\ m_out.map[LastKey].history = Append(m_prev[LastKey].history, LastRecord)
            /\ m_out.map[LastKey].value = m_prev[LastKey].value

C3_Witness ==
    /\ ChatStepOnExisting
    /\ Delta < 0 /\ Abs(Delta) < Margin
    /\ m_item.value # m_prev[LastKey].value
    /\ (LastKey \o AltSuffix) \in DOMAIN m_out.map

\* C4: a loop iteration never lowers the confidence of an entry that was in
\* the map before it.
C4_ConfidenceNeverFalls ==
    (m_pc = "chat" /\ m_item # NoItem) =>
        \A k \in DOMAIN m_prev :
            IsDict(m_prev[k]) =>
                /\ k \in DOMAIN m_out.map
                /\ IsDict(m_out.map[k])
                /\ m_out.map[k].confidence >= m_prev[k].confidence

C4_Witness ==
    /\ ChatStepOnExisting
    /\ Delta <= -Margin
    /\ m_out.map[LastKey].confidence = m_prev[LastKey].confidence
    /\ Len(m_out.map[LastKey].history) = Len(m_prev[LastKey].history) + 1

\* C6: the alternatives list of the trait is the last 8 of its near-tie
\* items, in arrival order.
C6_AlternativesCapped ==
    LET alt_key == StreamKey \o AltSuffix
    IN  IF m_near = <<>>
        THEN alt_key \notin DOMAIN m_out.map
        ELSE /\ alt_key \in DOMAIN m_out.map
             /\ Len(m_out.map[alt_key].items) <= 8
             /\ m_out.map[alt_key].items = LastN(m_near, 8)

C6_Witness ==
    /\ Len(m_near) >= 9
    /\ Len(m_out.map[StreamKey \o AltSuffix].items) = 8
    /\ m_out.map[StreamKey \o AltSuffix].items[1] = m_near[Len(m_near) - 7]
    /\ m_near[1] # m_near[Len(m_near) - 7]

\* C7: while a merge runs the caller's map is what it was at the call, and as
\* long as every item had an empty key or an empty/null value the working
\* map equals it.
C7_DiscardsLeaveProfile ==
    m_pc \in {"chat", "traits"} =>
        /\ m_existing = m_prof
        /\ m_skipped => m_out.map = m_existing

C7_Witness ==
    /\ m_pc = "chat"
    /\ m_prof # EmptyMap
    /\ m_item # NoItem
    /\ m_skipped
    /\ m_out.map = m_prof

IsTraitEntry(v) == IsDict(v) /\ {"value", "confidence", "history"} \subseteq DOMAIN v

StoreItems ==
    {[key |-> <<" ", "M">>, value |-> "A", confidence |-> 50],
     [key |-> <<" ", "M">>, value |-> "B", confidence |-> 54],
     [key |-> <<"x", " ">>, value |-> "A", confidence |-> 50]}

\* the extracted_traits lists the extractor may answer: none, one trait, or
\* a trait followed by a near-tie of it
ExtractLists ==
    {<<>>} \cup {<<it>> : it \in StoreItems}
    \cup {<<[key |-> <<" ", "M">>, value |-> "A", confidence |-> 50],
             [key |-> <<" ", "M">>, value |-> "B", confidence |-> 54]>>}

\* the orders in which a dict with key set S may iterate
RECURSIVE Orders(_)
Orders(S) ==
    IF S = {} THEN {<<>>}
    ELSE UNION {{<<k>> \o o : o \in Orders(S \ {k})} : k \in S}

\* the request ends and its locals are dropped
Finish(t, end, fault) ==
    /\ t_pc' = [t_pc EXCEPT ![t] = "idle"]
    /\ t_snap' = [t_snap EXCEPT ![t] = EmptyMap]
    /\ t_upd' = [t_upd EXCEPT ![t] = EmptyMap]
    /\ t_order' = [t_order EXCEPT ![t] = <<>>]
    /\ t_text' = [t_text EXCEPT ![t] = <<>>]
    /\ t_end' = [t_end EXCEPT ![t] = end]
    /\ t_fault' = [t_fault EXCEPT ![t] = fault]

\* sana_chat: the handler reads the users row and schedules bg_save
ChatRequest(t) ==
    /\ t_pc[t] = "idle"
    /\ requests < MaxRequests
    /\ requests' = requests + 1
    /\ t_pc' = [t_pc EXCEPT ![t] = "bg_save"]
    /\ t_snap' = [t_snap EXCEPT ![t] = db_psych_map]
    /\ t_upd' = [t_upd EXCEPT ![t] = EmptyMap]
    /\ t_order' = [t_order EXCEPT ![t] = <<>>]
    /\ t_text' = [t_text EXCEPT ![t] = <<>>]
    /\ t_fault' = [t_fault EXCEPT ![t] = ""]
    /\ t_end' = [t_end EXCEPT ![t] = ""]
    /\ UNCHANGED <<db_psych_map, db_psych_vector, clock>>
    /\ UNCHANGED <<merge_vars, call_vars, query_vars>>

\* bg_save from the calls of the two extractors to the await of the embedding:
\* merge, the update of the row, psych_map_to_plaintext.  Each extractor is
\* called through to_thread_retry and fails its first extract_failures
\* (light_failures) invocations; the update of the row is one call.  A task
\* that goes on notes in t_fault that an extractor was retried.
BgSave(t) ==
    /\ t_pc[t] = "bg_save"
    /\ \E extract_failures \in 0..Retries, light_failures \in 0..Retries,
          write_ok \in BOOLEAN, items \in ExtractLists :
         IF to_thread_retry(FailingFirst(extract_failures), Retries).kind = "raise"
         THEN /\ Finish(t, "bg_error", "extractor")
              /\ UNCHANGED <<db_psych_map, db_psych_vector, clock>>
         ELSE IF to_thread_retry(FailingFirst(light_failures), Retries).kind = "raise"
         THEN /\ Finish(t, "bg_error", "light_extractor")
              /\ UNCHANGED <<db_psych_map, db_psych_vector, clock>>
         ELSE LET updated_psych_map == merge_into_psych_map(t_snap[t], items, clock + 1)
                  retried == IF extract_failures + light_failures = 0 THEN ""
                             ELSE IF extract_failures + light_failures = 1 THEN "retried_once"
                             ELSE "retried"
              IN  /\ clock' = clock + 1
                  /\ UNCHANGED db_psych_vector
                  /\ IF ~write_ok
                     THEN /\ Finish(t, "bg_error", "store")
                          /\ UNCHANGED db_psych_map
                     ELSE /\ db_psych_map' = updated_psych_map
                          /\ \E keys \in Orders(DOMAIN updated_psych_map) :
                               LET text == psych_map_to_plaintext(keys, updated_psych_map)
                               IN  IF text = <<>>
                                   THEN Finish(t, "done", "")
                                   ELSE /\ t_pc' = [t_pc EXCEPT ![t] = "embed"]
                                        /\ t_upd' = [t_upd EXCEPT ![t] = updated_psych_map]
                                        /\ t_order' = [t_order EXCEPT ![t] = keys]
                                        /\ t_text' = [t_text EXCEPT ![t] = text]
                                        /\ t_fault' = [t_fault EXCEPT ![t] = retried]
                                        /\ UNCHANGED <<t_snap, t_end>>
    /\ UNCHANGED requests
    /\ UNCHANGED <<merge_vars, call_vars, query_vars>>

\* embed_and_store_user_vector from the answer of the embedding service on.
\* A task whose two calls succeeded leaves in t_snap, t_upd and t_text what
\* it read, merged and embedded, until its next request.
BgEmbed(t) ==
    /\ t_pc[t] = "embed"
    /\ \E embed_ok \in BOOLEAN, write_ok \in BOOLEAN :
         LET effect == embed_and_store_effect(embed_ok, write_ok)
             fault == IF ~embed_ok THEN "embedding" ELSE IF ~write_ok THEN "store" ELSE ""
         IN  /\ db_psych_map' = IF effect = "stored" THEN t_upd[t] ELSE db_psych_map
             /\ db_psych_vector' = IF effect = "stored" THEN embed_sync(t_text[t]) ELSE db_psych_vector
             /\ IF embed_ok /\ write_ok
                THEN /\ t_pc' = [t_pc EXCEPT ![t] = "idle"]
                     /\ t_order' = [t_order EXCEPT ![t] = <<>>]
                     /\ t_end' = [t_end EXCEPT ![t] = "done"]
                     /\ t_fault' = [t_fault EXCEPT ![t] = ""]
                     /\ UNCHANGED <<t_snap, t_upd, t_text>>
                ELSE Finish(t, IF effect = "raised" THEN "bg_error" ELSE "done", fault)
    /\ UNCHANGED <<clock, requests>>
    /\ UNCHANGED <<merge_vars, call_vars, query_vars>>

\* update_psych: the handler reads the users row
WorkerRequest(t) ==
    /\ t_pc[t] = "idle"
    /\ requests < MaxRequests
    /\ requests' = requests + 1
    /\ t_pc' = [t_pc EXCEPT ![t] = "w_extract"]
    /\ t_snap' = [t_snap EXCEPT ![t] = db_psych_map]
    /\ t_upd' = [t_upd EXCEPT ![t] = EmptyMap]
    /\ t_order' = [t_order EXCEPT ![t] = <<>>]
    /\ t_text' = [t_text EXCEPT ![t] = <<>>]
    /\ t_fault' = [t_fault EXCEPT ![t] = ""]
    /\ t_end' = [t_end EXCEPT ![t] = ""]
    /\ UNCHANGED <<db_psych_map, db_psych_vector, clock>>
    /\ UNCHANGED <<merge_vars, call_vars, query_vars>>

\* update_psych from the answer of the extractor to the await of the router
WorkerExtract(t) ==
    /\ t_pc[t] = "w_extract"
    /\ \E extract_ok \in BOOLEAN, items \in ExtractLists :
         IF ~extract_ok
         THEN /\ Finish(t, "http_500", "extractor")
              /\ UNCHANGED clock
         ELSE LET updated_psych_map == worker_merge_into_psych_map(t_snap[t], items, clock + 1)
              IN  /\ clock' = clock + 1
                  /\ t_upd' = [t_upd EXCEPT ![t] = updated_psych_map]
                  /\ \E keys \in Orders(DOMAIN updated_psych_map) :
                       t_order' = [t_order EXCEPT ![t] = keys]
                  /\ t_pc' = [t_pc EXCEPT ![t] = "w_route"]
                  /\ UNCHANGED <<t_snap, t_text, t_end, t_fault>>
    /\ UNCHANGED <<db_psych_map, db_psych_vector, requests>>
    /\ UNCHANGED <<merge_vars, call_vars, query_vars>>

\* update_psych from the answer of the router to the await of the embedding:
\* the update of the row
WorkerRoute(t) ==
    /\ t_pc[t] = "w_route"
    /\ \E route_ok \in BOOLEAN, write_ok \in BOOLEAN :
         IF ~route_ok
         THEN /\ Finish(t, "http_500", "router")
              /\ UNCHANGED db_psych_map
         ELSE IF ~write_ok
         THEN /\ Finish(t, "http_500", "store")
              /\ UNCHANGED db_psych_map
         ELSE /\ db_psych_map' = t_upd[t]
              /\ t_text' = [t_text EXCEPT ![t] = json_dumps_map(t_order[t], t_upd[t])]
              /\ t_pc' = [t_pc EXCEPT ![t] = "w_embed"]
              /\ UNCHANGED <<t_snap, t_upd, t_order, t_end, t_fault>>
    /\ UNCHANGED <<db_psych_vector, clock, requests>>
    /\ UNCHANGED <<merge_vars, call_vars, query_vars>>

\* the worker's embed_and_store_user_vector: no try/except, psych_vector only
WorkerEmbed(t) ==
    /\ t_pc[t] = "w_embed"
    /\ \E embed_ok \in BOOLEAN, write_ok \in BOOLEAN :
         IF embed_ok /\ write_ok
         THEN /\ db_psych_vector' = embed_sync(t_text[t])
              /\ Finish(t, "ok", "")
         ELSE /\ UNCHANGED db_psych_vector
              /\ Finish(t, "http_500", IF ~embed_ok THEN "embedding" ELSE "store")
    /\ UNCHANGED <<db_psych_map, clock, requests>>
    /\ UNCHANGED <<merge_vars, call_vars, query_vars>>

Init == InitProfile /\ InitStore /\ IdleCalls /\ IdleQueries

Next ==
    \E t \in Tasks :
        \/ ChatRequest(t)
        \/ BgSave(t)
        \/ BgEmbed(t)
        \/ WorkerRequest(t)
        \/ WorkerExtract(t)
        \/ WorkerRoute(t)
        \/ WorkerEmbed(t)

Spec == Init /\ [][Next]_vars

\* the same requests, each run to completion before the next is received
Alone(t) == \A u \in Tasks \ {t} : t_pc[u] = "idle"

NextSeq ==
    \E t \in Tasks :
        \/ Alone(t) /\ ChatRequest(t)
        \/ Alone(t) /\ BgSave(t)
        \/ Alone(t) /\ BgEmbed(t)
        \/ Alone(t) /\ WorkerRequest(t)
        \/ Alone(t) /\ WorkerExtract(t)
        \/ Alone(t) /\ WorkerRoute(t)
        \/ Alone(t) /\ WorkerEmbed(t)

SpecSeq == Init /\ [][NextSeq]_vars

\* ------------------------------------------------------------------------
\* Properties of the stored profile and of the vectorizer
\* ------------------------------------------------------------------------
\* C5: an update of the row removes no trait key and only extends the
\* history of every trait entry.
C5_TraitsKeptHistoryGrows ==
    [][\A k \in DOMAIN db_psych_map :
           /\ k \in DOMAIN db_psych_map'
           /\ IsDict(db_psych_map[k]) =>
                  /\ IsDict(db_psych_map'[k])
                  /\ IsPrefix(db_psych_map[k].history, db_psych_map'[k].history)]_vars

\* the keys of pm in lexicographic order
KeysInOrder(pm) ==
    CHOOSE o \in Orders(DOMAIN pm) : \A i, j \in 1..Len(o) : i < j => str_lt(o[i], o[j])

RECURSIVE RenderInOrder(_, _)
RenderInOrder(keys, pm) ==
    IF keys = <<>> THEN <<>>
    ELSE LET k == Head(keys)
             part == IF IsTraitEntry(pm[k]) THEN k \o <<":", " ", pm[k].value>>
                     ELSE k \o <<":", " ">> \o json_list(pm[k].items)
         IN  IF Tail(keys) = <<>> THEN part
             ELSE part \o <<".", " ">> \o RenderInOrder(Tail(keys), pm)

\* C9: the text sent for embedding is the "key: value" parts in lexicographic
\* key order joined by ". ", whatever the iteration order of the map; equal
\* maps give equal texts; an empty map gives no text and no embedding call.
C9_PlaintextOrderIndependent ==
    /\ \A t \in Tasks :
           t_pc[t] = "embed" =>
               /\ t_upd[t] # EmptyMap
               /\ t_text[t] # <<>>
               /\ t_text[t] = RenderInOrder(KeysInOrder(t_upd[t]), t_upd[t])
    /\ \A t, u \in Tasks :
           (t_pc[t] = "embed" /\ t_pc[u] = "embed" /\ t_upd[t] = t_upd[u]) => t_text[t] = t_text[u]

C9_Witness ==
    \E t \in Tasks :
        /\ t_pc[t] = "embed"
        /\ Len(t_order[t]) >= 2
        /\ str_lt(t_order[t][2], t_order[t][1])
        /\ t_text[t] = RenderInOrder(KeysInOrder(t_upd[t]), t_upd[t])

\* C10: when the embedding call of embed_and_store_user_vector fails, the
\* row is not written and the background task goes on to its normal end.
C10_EmbedFailureNoWrite ==
    [][\A t \in Tasks :
           (t_pc[t] = "embed" /\ t_pc'[t] = "idle" /\ t_fault'[t] = "embedding") =>
               /\ db_psych_vector' = db_psych_vector
               /\ db_psych_map' = db_psych_map
               /\ t_end'[t] = "done"]_vars

C10_Witness ==
    \E t \in Tasks :
        /\ t_pc[t] = "idle"
        /\ t_fault[t] = "embedding"
        /\ t_end[t] = "done"
        /\ db_psych_vector # NullVector

\* ------------------------------------------------------------------------
\* Python float arithmetic (IEEE 754 binary64, round to nearest, ties to even)
\*
\* A natural number of more than 31 bits is a sequence of 12-bit limbs, least
\* significant first, without leading zero limbs; zero is <<>>.  A float is
\* [sign, mant, exp] with value sign * mant * 2^exp and mant of exactly
\* MantBits bits, or sign = 0 for 0.0.
\* ------------------------------------------------------------------------
LimbBits == 12

MantBits == 53

RECURSIVE Pow2(_)
Pow2(n) == IF n = 0 THEN 1 ELSE 2 * Pow2(n - 1)

Base == Pow2(LimbBits)

Limb(x, i) == IF i >= 1 /\ i <= Len(x) THEN x[i] ELSE 0

RECURSIVE big_norm(_)
big_norm(x) ==
    IF x = <<>> THEN <<>>
    ELSE IF x[Len(x)] = 0 THEN big_norm(SubSeq(x, 1, Len(x) - 1))
    ELSE x

RECURSIVE big_of_int(_)
big_of_int(n) == IF n = 0 THEN <<>> ELSE <<n % Base>> \o big_of_int(n \div Base)

\* the number of bits of x
big_bitlen(x) ==
    LET RECURSIVE bits(_)
        bits(n) == IF n = 0 THEN 0 ELSE 1 + bits(n \div 2)
    IN  IF x = <<>> THEN 0 ELSE LimbBits * (Len(x) - 1) + bits(x[Len(x)])

\* -1, 0, 1 as x < y, x = y, x > y
big_cmp(x, y) ==
    LET RECURSIVE from(_)
        from(i) ==
            IF i = 0 THEN 0
            ELSE IF x[i] < y[i] THEN -1
            ELSE IF x[i] > y[i] THEN 1
            ELSE from(i - 1)
    IN  IF Len(x) < Len(y) THEN -1
        ELSE IF Len(x) > Len(y) THEN 1
        ELSE from(Len(x))

big_add(x, y) ==
    LET RECURSIVE from(_, _)
        from(i, carry) ==
            IF i > Len(x) /\ i > Len(y)
            THEN IF carry = 0 THEN <<>> ELSE <<carry>>
            ELSE LET s == Limb(x, i) + Limb(y, i) + carry
                 IN  <<s % Base>> \o from(i + 1, s \div Base)
    IN  from(1, 0)

\* x - y for x >= y
big_sub(x, y) ==
    LET RECURSIVE from(_, _)
        from(i, borrow) ==
            IF i > Len(x) THEN <<>>
            ELSE LET s == x[i] - Limb(y, i) - borrow
                 IN  IF s < 0 THEN <<s + Base>> \o from(i + 1, 1)
                     ELSE <<s>> \o from(i + 1, 0)
    IN  big_norm(from(1, 0))

\* x * d * Base^q for a limb d
mul_small(x, d, q) ==
    LET RECURSIVE from(_, _)
        from(i, carry) ==
            IF i > Len(x)
            THEN IF carry = 0 THEN <<>> ELSE <<carry>>
            ELSE LET s == x[i] * d + carry
                 IN  <<s % Base>> \o from(i + 1, s \div Base)
    IN  IF d = 0 \/ x = <<>> THEN <<>> ELSE [i \in 1..q |-> 0] \o from(1, 0)

big_mul(x, y) ==
    LET RECURSIVE from(_)
        from(i) ==
            IF i > Len(y) THEN <<>>
            ELSE big_add(mul_small(x, y[i], i - 1), from(i + 1))
    IN  from(1)

\* x * 2^n
big_shl(x, n) == mul_small(x, Pow2(n % LimbBits), n \div LimbBits)

\* x \div 2^n
big_shr(x, n) ==
    LET q == n \div LimbBits
        r == n % LimbBits
        m == Len(x) - q
    IN  IF m <= 0 THEN <<>>
        ELSE big_norm([i \in 1..m |->
                 (x[i + q] \div Pow2(r)) + (Limb(x, i + q + 1) % Pow2(r)) * Pow2(LimbBits - r)])

\* the nearest MantBits-bit multiple of a power of two to x * 2^e (x > 0);
\* sticky says that x was cut from a larger value
round_nearest_even(x, e, sticky) ==
    LET len == big_bitlen(x)
    IN  IF len <= MantBits
        THEN [mant |-> big_shl(x, MantBits - len), exp |-> e - (MantBits - len)]
        ELSE LET n    == len - MantBits
                 q    == big_shr(x, n)
                 rem  == big_sub(x, big_shl(q, n))
                 c    == big_cmp(rem, big_shl(<<1>>, n - 1))
                 up   == c > 0 \/ (c = 0 /\ (sticky \/ q[1] % 2 = 1))
                 r    == IF up THEN big_add(q, <<1>>) ELSE q
             IN  IF big_bitlen(r) > MantBits
                 THEN [mant |-> big_shr(r, 1), exp |-> e + n + 1]
                 ELSE [mant |-> r, exp |-> e + n]

\* floor of the square root of x and what is left, bit by bit: s.bit is the
\* power of four tried
big_isqrt(x) ==
    LET step(s) ==
            LET t == big_add(s.root, s.bit)
            IN  IF big_cmp(s.rem, t) >= 0
                THEN [rem  |-> big_sub(s.rem, t),
                      root |-> big_add(big_shr(s.root, 1), s.bit),
                      bit  |-> big_shr(s.bit, 2)]
                ELSE [rem |-> s.rem, root |-> big_shr(s.root, 1), bit |-> big_shr(s.bit, 2)]
        RECURSIVE loop(_)
        loop(s) ==
            IF s.bit = <<>> THEN s
            ELSE CHOOSE r \in {loop(n) : n \in {step(s)}} : TRUE
    IN  loop([rem |-> x, root |-> <<>>,
              bit |-> big_shl(<<1>>, 2 * ((big_bitlen(x) - 1) \div 2))])

\* x \div m and x % m for x >= m > 0, bit by bit: s.i is the bit tried
big_divmod(x, m) ==
    LET step(s) ==
            LET t == big_shl(m, s.i)
            IN  IF big_cmp(s.rem, t) >= 0
                THEN [rem  |-> big_sub(s.rem, t),
                      quot |-> big_add(s.quot, big_shl(<<1>>, s.i)),
                      i    |-> s.i - 1]
                ELSE [rem |-> s.rem, quot |-> s.quot, i |-> s.i - 1]
        RECURSIVE loop(_)
        loop(s) ==
            IF s.i < 0 THEN s
            ELSE CHOOSE r \in {loop(n) : n \in {step(s)}} : TRUE
    IN  loop([rem |-> x, quot |-> <<>>, i |-> big_bitlen(x) - big_bitlen(m)])

FloatZero == [sign |-> 0, mant |-> <<>>, exp |-> 0]

\* float(n) for an int n of fewer than 32 bits: exact
float_of_int(n) ==
    IF n = 0 THEN FloatZero
    ELSE LET r == round_nearest_even(big_of_int(IF n < 0 THEN -n ELSE n), 0, FALSE)
         IN  [sign |-> IF n < 0 THEN -1 ELSE 1, mant |-> r.mant, exp |-> r.exp]

\* math.sqrt(n) for an int n >= 0
float_sqrt(n) ==
    IF n = 0 THEN FloatZero
    ELSE LET s == (2 * MantBits + 2 - big_bitlen(big_of_int(n))) \div 2
             r == big_isqrt(big_shl(big_of_int(n), 2 * s))
             f == round_nearest_even(r.root, -s, r.rem # <<>>)
         IN  [sign |-> 1, mant |-> f.mant, exp |-> f.exp]

\* x * y
float_mul(x, y) ==
    IF x.sign = 0 \/ y.sign = 0 THEN FloatZero
    ELSE LET r == round_nearest_even(big_mul(x.mant, y.mant), x.exp + y.exp, FALSE)
         IN  [sign |-> x.sign * y.sign, mant |-> r.mant, exp |-> r.exp]

\* x / y for y # 0.0
float_div(x, y) ==
    IF x.sign = 0 THEN FloatZero
    ELSE LET t == MantBits + 3
             d == big_divmod(big_shl(x.mant, t), y.mant)
             r == round_nearest_even(d.quot, x.exp - t - y.exp, d.rem # <<>>)
         IN  [sign |-> x.sign * y.sign, mant |-> r.mant, exp |-> r.exp]

\* x < y
float_lt(x, y) ==
    LET mag_lt(u, v) == u.exp < v.exp \/ (u.exp = v.exp /\ big_cmp(u.mant, v.mant) < 0)
    IN  IF x.sign # y.sign THEN x.sign < y.sign
        ELSE IF x.sign = 0 THEN FALSE
        ELSE IF x.sign = 1 THEN mag_lt(x, y)
        ELSE mag_lt(y, x)

\* ------------------------------------------------------------------------
\* cosine_similarity (sana_chat.py)
\* ------------------------------------------------------------------------
MinusOne == float_of_int(-1)

One == float_of_int(1)

RECURSIVE dot_product(_, _)
dot_product(a, b) ==
    IF a = <<>> \/ b = <<>> THEN 0
    ELSE Head(a) * Head(b) + dot_product(Tail(a), Tail(b))

cosine_similarity(a, b) ==
    IF a = <<>> \/ b = <<>> THEN MinusOne
    ELSE LET m  == IF Len(a) < Len(b) THEN Len(a) ELSE Len(b)
             a1 == IF Len(a) # Len(b) THEN SubSeq(a, 1, m) ELSE a
             b1 == IF Len(a) # Len(b) THEN SubSeq(b, 1, m) ELSE b
             dot == dot_product(a1, b1)
         IN  CHOOSE r \in
                 { IF na = FloatZero \/ nb = FloatZero THEN MinusOne
                   ELSE float_div(float_of_int(dot), float_mul(na, nb)) :
                   na \in {float_sqrt(dot_product(a1, a1))},
                   nb \in {float_sqrt(dot_product(b1, b1))} } : TRUE

Vectors ==
    { <<>>, <<0>>, <<0, 0>>, <<1>>, <<2>>, <<3, 3>>, <<-3, -3>>, <<3, 4>>, <<-1, 2>>,
      <<1, 2, 3>>, <<3, 3, 1>> }

CosineCall ==
    /\ fn = "cosine_similarity"
    /\ ret = NoResult
    /\ ret' = cosine_similarity(args[1], args[2])
    /\ UNCHANGED <<fn, args, merge_vars, store_vars, query_vars>>

\* ------------------------------------------------------------------------
\* vector_search_candidates (sana_chat.py): the RPC, and the local fallback
\* ------------------------------------------------------------------------
MaxK == 2

\* Python's None where a column or a field may hold it
Null == [kind |-> "null"]

\* a value of a column that may hold several types carries its type: a list
\* is [kind |-> "list", items], a dict [kind |-> "dict", items], a number
\* [kind |-> "int", value], a string [kind |-> "str", form] with form saying
\* what the text is
ListValue(v) == [kind |-> "list", items |-> v]

\* `not v`
is_falsy(v) ==
    \/ v = Null
    \/ v.kind = "list" /\ v.items = <<>>
    \/ v.kind = "dict" /\ DOMAIN v.items = {}
    \/ v.kind = "str" /\ v.form = "empty"
    \/ v.kind = "int" /\ v.value = 0

Slice_whole(rows, k) == rows

\* rows[:k] for k >= 0
Slice(rows, k) == SubSeq(rows, 1, IF k < Len(rows) THEN k ELSE Len(rows))

without_id_unfiltered(rows, exclude_user_id) == rows

\* [r for r in rows if r.get("id") != exclude_user_id]
RECURSIVE without_id(_, _)
without_id(rows, exclude_user_id) ==
    IF rows = <<>> THEN <<>>
    ELSE IF Head(rows).id # exclude_user_id
         THEN <<Head(rows)>> \o without_id(Tail(rows), exclude_user_id)
         ELSE without_id(Tail(rows), exclude_user_id)

sort_by_score_unsorted(scored) == scored

\* scored.sort(key=score, reverse=True): equal scores keep their order
sort_by_score(scored) ==
    LET RECURSIVE insert(_, _)
        insert(s, e) ==
            IF s = <<>> THEN <<e>>
            ELSE IF float_lt(Head(s).score, e.score) THEN <<e>> \o s
            ELSE <<Head(s)>> \o insert(Tail(s), e)
        RECURSIVE first(_)
        first(n) == IF n = 0 THEN <<>> ELSE insert(first(n - 1), scored[n])
    IN  first(Len(scored))

\* local_vector_match up to its sort: the list `scored`
scored_users(all_users, query_vector) ==
    LET sim(u) ==
            IF u.psych_vector.kind = "list"
            THEN cosine_similarity(query_vector, u.psych_vector.items)
            ELSE MinusOne
        RECURSIVE scan(_)
        scan(i) ==
            IF i > Len(all_users) THEN <<>>
            ELSE IF is_falsy(all_users[i].psych_vector) THEN scan(i + 1)
            ELSE <<[user |-> all_users[i], score |-> sim(all_users[i])]>> \o scan(i + 1)
    IN  CHOOSE r \in {sort_by_score(l) : l \in {scan(1)}} : TRUE

\* [s["user"] for s in scored[:k]]
top_users(scored, k) == [i \in 1..Len(Slice(scored, k)) |-> scored[i].user]

local_vector_match(all_users, query_vector, k) ==
    top_users(scored_users(all_users, query_vector), k)

\* rpc_res is what try_rpc_match returned (Null when the RPC raised), table
\* what the select on users answered (Null when it raised); the answer
\* records the path taken and the list `scored` of the fallback beside the
\* list returned
vector_search_candidates(request_vector, exclude_user_id, k, rpc_res, table) ==
    IF rpc_res # Null
    THEN [path |-> "rpc", scored |-> <<>>,
          out |-> Slice(without_id(rpc_res.rows, exclude_user_id), k)]
    ELSE IF table = Null
    THEN [path |-> "failed", scored |-> <<>>, out |-> <<>>]
    ELSE CHOOSE r \in
             { [path |-> "fallback", scored |-> sc, out |-> top_users(sc, k)] :
               sc \in {scored_users(without_id(table.rows, exclude_user_id), request_vector)} } : TRUE

\* the users table: the first rows of u1, u2, u3
SearchTables ==
    LET all == { <<[id |-> "u1", psych_vector |-> v1], [id |-> "u2", psych_vector |-> v2],
                   [id |-> "u3", psych_vector |-> v3]>> :
                 v1 \in {ListValue(<<3, 3>>), Null},
                 v2 \in {ListValue(<<3, 4>>), ListValue(<<-3, -3>>), ListValue(<<0, 0>>)},
                 v3 \in {ListValue(<<3, 3, 1>>), [kind |-> "str", form |-> "text"]} }
    IN  {SubSeq(t, 1, n) : t \in all, n \in 0..3}

SearchRequests ==
    [endpoint : {"vector_search_candidates"}, request_vector : {<<3, 3>>, <<3, 4>>},
     exclude_user_id : {"u1", "u2", None}, k : 0..MaxK]

\* what the match_users RPC may answer: any rows of the table in any order
RpcAnswers ==
    { [i \in 1..Len(o) |-> users[o[i]]] :
      o \in UNION {Orders(S) : S \in SUBSET (1..Len(users))} }

InitSearch ==
    /\ InitProfile /\ InitStore /\ IdleCalls
    /\ users \in SearchTables
    /\ rq \in SearchRequests
    /\ rs = NoResult
    /\ IdleActions

VectorSearch ==
    /\ rq.endpoint = "vector_search_candidates"
    /\ rs = NoResult
    /\ \E rpc_res \in {[rows |-> a] : a \in RpcAnswers} \cup {Null},
          table \in {[rows |-> users], Null} :
           rs' = vector_search_candidates(rq.request_vector, rq.exclude_user_id, rq.k,
                                          rpc_res, table)
    /\ UNCHANGED <<users, rq, user_actions, notifications, merge_vars, store_vars, call_vars>>

SpecSearch == InitSearch /\ [][VectorSearch]_vars

\* C11: vector_search_candidates returns on every path a list of at most k
\* rows none of which has the id exclude_user_id, and the empty list when the
\* RPC and the fallback read both failed.
C11_AtMostKWithoutCaller ==
    rs # NoResult /\ rq.endpoint = "vector_search_candidates" =>
        /\ rs.path \in {"rpc", "fallback", "failed"}
        /\ Len(rs.out) <= rq.k
        /\ \A i \in DOMAIN rs.out : rs.out[i].id # rq.exclude_user_id
        /\ rs.path = "failed" => rs.out = <<>>

\* the RPC and the fallback read both failed while the table holds a user
\* other than the caller who has a vector
C11_Witness ==
    /\ rs # NoResult /\ rq.endpoint = "vector_search_candidates"
    /\ rs.path = "failed" /\ rs.out = <<>> /\ rq.k >= 1
    /\ \E i \in DOMAIN users :
           users[i].id # rq.exclude_user_id /\ ~is_falsy(users[i].psych_vector)

\* the list returned is the head of the stored users other than the caller
\* that have a vector, ordered by the cosine similarity of their vector to
\* the request vector (-1.0 where computing it raised)
TopKOfEligible ==
    LET eligible == {i \in DOMAIN users : /\ users[i].id # rq.exclude_user_id
                                           /\ ~is_falsy(users[i].psych_vector)}
        n == IF rq.k < Cardinality(eligible) THEN rq.k ELSE Cardinality(eligible)
    IN  /\ Len(rs.scored) = Cardinality(eligible)
        /\ \A j \in eligible : \E i \in DOMAIN rs.scored : rs.scored[i].user = users[j]
        /\ \A i \in DOMAIN rs.scored :
               rs.scored[i].score =
                   IF rs.scored[i].user.psych_vector.kind = "list"
                   THEN cosine_similarity(rq.request_vector, rs.scored[i].user.psych_vector.items)
                   ELSE MinusOne
        /\ \A i, j \in DOMAIN rs.scored :
               i < j => ~float_lt(rs.scored[i].score, rs.scored[j].score)
        /\ Len(rs.out) = n
        /\ \A i \in DOMAIN rs.out : rs.out[i] = rs.scored[i].user
        /\ eligible # {} /\ rq.k >= 1 => rs.out # <<>>

\* C12 as stated: when the RPC raises, vector_search_candidates returns the k
\* most similar stored users other than the caller that have a vector, most
\* similar first, and a non-empty list when there is such a user and k >= 1.
C12_TopKWhenRpcRaises ==
    rs # NoResult /\ rq.endpoint = "vector_search_candidates" /\ rs.path # "rpc"
        => TopKOfEligible

\* C12 (amended): the same when the RPC raises and the fallback read of the
\* users table succeeds.
C12_TopKWhenFallbackReads ==
    rs # NoResult /\ rq.endpoint = "vector_search_candidates" /\ rs.path = "fallback"
        => TopKOfEligible

\* the fallback cut a list of three users, reordered by similarity, to two
C12_Witness ==
    /\ rs # NoResult /\ rq.endpoint = "vector_search_candidates"
    /\ rs.path = "fallback"
    /\ Len(rs.scored) = 3 /\ Len(rs.out) = 2
    /\ rs.out[1].id = "u2"
    /\ float_lt(rs.scored[3].score, rs.scored[2].score)


\* ---------------------------------------------------------------------
\* Synastry scoring (soul_of_anlasana_2_1.py).  Weights and house
\* multipliers are kept in tenths, so that a product weight * multiplier is
\* an exact number of hundredths.
\* ---------------------------------------------------------------------

\* the weighted planets, in the order the scoring loop visits them
PLANETS == <<"Sun", "Moon", "Venus", "Mars", "Mercury", "Jupiter", "Saturn", "North Node", "South Node">>

PLANET_WEIGHTS ==
    [planet \in {PLANETS[i] : i \in 1..Len(PLANETS)} |->
        CASE planet \in {"Sun", "Mercury"} -> 10
          [] planet \in {"Moon", "Saturn"} -> 15
          [] planet = "Mars" -> 18
          [] planet = "Jupiter" -> 12
          [] OTHER -> 20]

HOUSE_IMPORTANCE == (5 :> 15) @@ (7 :> 20) @@ (8 :> 18)

ASPECTS ==
    << [name |-> "conjunction", angle |-> 0, orb |-> 10, score |-> 10],
       [name |-> "sextile", angle |-> 60, orb |-> 5, score |-> 5],
       [name |-> "square", angle |-> 90, orb |-> 6, score |-> -5],
       [name |-> "trine", angle |-> 120, orb |-> 8, score |-> 7],
       [name |-> "opposition", angle |-> 180, orb |-> 8, score |-> -8] >>

SIGN_ELEMENTS ==
    [sign \in {"Aries", "Leo", "Sagittarius", "Taurus", "Virgo", "Capricorn",
               "Gemini", "Libra", "Aquarius", "Cancer", "Scorpio", "Pisces"} |->
        CASE sign \in {"Aries", "Leo", "Sagittarius"} -> "Fire"
          [] sign \in {"Taurus", "Virgo", "Capricorn"} -> "Earth"
          [] sign \in {"Gemini", "Libra", "Aquarius"} -> "Air"
          [] OTHER -> "Water"]

ELEMENT_SCORE == [element \in {"Fire", "Earth", "Air", "Water"} |-> 5]

angle_diff_signed(deg1, deg2) == (deg1 - deg2) % 360

angle_diff(deg1, deg2) ==
    LET diff == Abs(deg1 - deg2) % 360
    IN IF diff <= 180 THEN diff ELSE 360 - diff

get_aspect_score_strict(diff) ==
    LET RECURSIVE scan(_)
        scan(i) == IF i > Len(ASPECTS) THEN 0
                   ELSE IF Abs(diff - ASPECTS[i].angle) < ASPECTS[i].orb THEN ASPECTS[i].score
                   ELSE scan(i + 1)
    IN scan(1)

get_aspect_score(diff) ==
    LET RECURSIVE scan(_)
        scan(i) == IF i > Len(ASPECTS) THEN 0
                   ELSE IF Abs(diff - ASPECTS[i].angle) <= ASPECTS[i].orb THEN ASPECTS[i].score
                   ELSE scan(i + 1)
    IN scan(1)

EmptyDict == [kind |-> "dict", items |-> <<>>]

\* d.get(key, default)
dict_get(d, key, default) == IF key \in DOMAIN d.items THEN d.items[key] ELSE default

\* A chart column holds null, a JSON object, or text.  Text is described by
\* its form: "object" is the JSON text of the object in its value field,
\* "quoted" is that text inside one pair of outer quotes, "array" is the JSON
\* text of an array, "invalid" is text json.loads rejects, "empty" is "".
safe_json(val) ==
    IF is_falsy(val) THEN EmptyDict
    ELSE IF val.kind = "dict" THEN val
    ELSE IF val.kind = "str" /\ val.form \in {"object", "quoted"} THEN val.value
    ELSE EmptyDict

\* max(0, min(100, x))
clamp_unclamped(x) == x

clamp(x) == IF x > 100 THEN 100 ELSE IF x < 0 THEN 0 ELSE x

\* The call either returns a value or raises.  total_score and total_weight
\* are in hundredths; round is Python's round of num / den (den > 0): to the
\* nearest integer, halves to the even one.
deep_compatibility(user_chart0, crush_chart0) ==
    LET user_chart == safe_json(user_chart0)
        crush_chart == safe_json(crush_chart0)
        u_planets == dict_get(user_chart, "planets", EmptyDict)
        c_planets == dict_get(crush_chart, "planets", EmptyDict)
        u_asc == dict_get(user_chart, "ascendant", EmptyDict)
        c_asc == dict_get(crush_chart, "ascendant", EmptyDict)
        round(num, den) ==
            LET q == num \div den
                r == num - q * den
            IN IF 2 * r < den THEN q
               ELSE IF 2 * r > den THEN q + 1
               ELSE IF q % 2 = 0 THEN q ELSE q + 1
        \* HOUSE_IMPORTANCE.get(u.get("house"), 1.0)
        house_multiplier(u) ==
            IF "house" \in DOMAIN u.items /\ u.items.house \in DOMAIN HOUSE_IMPORTANCE
            THEN HOUSE_IMPORTANCE[u.items.house] ELSE 10
        finish(total_score, total_weight) ==
            IF u_asc = Null \/ c_asc = Null THEN [kind |-> "raise", error |-> "AttributeError"]
            ELSE LET u_sign == dict_get(u_asc, "sign", None)
                     c_sign == dict_get(c_asc, "sign", None)
                     u_elem == IF u_sign \in DOMAIN SIGN_ELEMENTS THEN SIGN_ELEMENTS[u_sign] ELSE None
                     c_elem == IF c_sign \in DOMAIN SIGN_ELEMENTS THEN SIGN_ELEMENTS[c_sign] ELSE None
                     bonus == IF u_sign \notin {None, ""} /\ c_sign \notin {None, ""}
                                 /\ u_elem # None /\ c_elem # None /\ u_elem = c_elem
                              THEN 100 * ELEMENT_SCORE[u_elem] ELSE 0
                 IN IF total_weight = 0 THEN [kind |-> "return", value |-> 0]
                    ELSE [kind |-> "return",
                          value |-> clamp(round((total_score + bonus) * 10, total_weight))]
        RECURSIVE loop(_, _, _)
        loop(i, total_score, total_weight) ==
            IF i > Len(PLANETS) THEN finish(total_score, total_weight)
            ELSE LET planet == PLANETS[i]
                     u == dict_get(u_planets, planet, Null)
                     c == dict_get(c_planets, planet, Null)
                 IN IF is_falsy(u) \/ is_falsy(c) THEN loop(i + 1, total_score, total_weight)
                    ELSE IF "longitude" \notin DOMAIN u.items \/ "longitude" \notin DOMAIN c.items
                         THEN [kind |-> "raise", error |-> "KeyError"]
                    ELSE LET diff == angle_diff(u.items.longitude, c.items.longitude)
                             aspect_score == get_aspect_score(diff)
                             weight == PLANET_WEIGHTS[planet] * house_multiplier(u)
                         IN loop(i + 1, total_score + aspect_score * weight, total_weight + weight)
    IN IF u_planets = Null \/ c_planets = Null THEN [kind |-> "raise", error |-> "AttributeError"]
       ELSE loop(1, 0, 0)

\* Charts the calls are tried on: every combination of a Sun record, a second
\* planet and an ascendant, the planets or the ascendant null or absent, and
\* the forms a chart stored as text can take.
Charts ==
    LET D(items) == [kind |-> "dict", items |-> items]
        Suns == {<<>>} \cup {[Sun |-> D(r)] : r \in {[longitude |-> 0, house |-> 7],
                                                     [longitude |-> 0, house |-> 1],
                                                     [longitude |-> 60, house |-> 1],
                                                     [longitude |-> 94, house |-> 7]}}
                      \cup {[Sun |-> D([house |-> 7])], [Sun |-> EmptyDict]}
        Others == {<<>>, [Moon |-> D([longitude |-> 120, house |-> 1])],
                   [Moon |-> D([longitude |-> 185, house |-> 5])],
                   [Pluto |-> D([longitude |-> 0, house |-> 7])]}
        Planets == {[planets |-> D(s @@ o)] : s \in Suns, o \in Others}
                       \cup {<<>>, [planets |-> Null]}
        Ascendants == {<<>>, [ascendant |-> Null]}
                          \cup {[ascendant |-> D([sign |-> s])] : s \in {"Aries", "Leo", "Cancer"}}
        Sample == D([planets |-> D([Sun |-> D([longitude |-> 0, house |-> 7])])])
    IN {D(p @@ a) : p \in Planets, a \in Ascendants}
           \cup {Null}
           \cup {[kind |-> "str", form |-> f, value |-> Sample] :
                     f \in {"object", "quoted", "array", "invalid", "empty"}}

classify_connection(score) ==
    IF score >= 85 THEN "soulmate"
    ELSE IF score >= 30 THEN "twin_flame"
    ELSE "karmic"

\* deep_compatibility(user_chart, crush_chart) is called on the charts in args
DeepCompatibilityCall ==
    /\ fn = "deep_compatibility"
    /\ ret = NoResult
    /\ ret' = deep_compatibility(args[1], args[2])
    /\ UNCHANGED <<fn, args, merge_vars, store_vars, query_vars>>

\* classify_connection(score) is called on the score in args
ClassifyCall ==
    /\ fn = "classify_connection"
    /\ ret = NoResult
    /\ ret' = [kind |-> "return", value |-> classify_connection(args[1])]
    /\ UNCHANGED <<fn, args, merge_vars, store_vars, query_vars>>

\* ---------------------------------------------------------------------------
\* The pair-based scorer (compatibility.py; demo_matches.py holds a copy)
\* ---------------------------------------------------------------------------

PAIRS == << <<"Sun", "Moon">>, <<"Moon", "Moon">>, <<"Venus", "Mars">>,
            <<"Mars", "Venus">>, <<"Sun", "Venus">>, <<"Moon", "Venus">> >>

\* The rescaled score is 76 + (score - 50) * 22 / 50, a multiple of 1/25 and
\* so never halfway between two integers; round takes the nearest one.
calculate_compatibility_score(user_chart, crush_chart) ==
    LET user_planets == IF user_chart.kind = "dict"
                        THEN dict_get(user_chart, "planets", EmptyDict) ELSE EmptyDict
        crush_planets == IF crush_chart.kind = "dict"
                         THEN dict_get(crush_chart, "planets", EmptyDict) ELSE EmptyDict
        round(num, den) ==
            LET q == num \div den
                r == num - q * den
            IN IF 2 * r < den THEN q
               ELSE IF 2 * r > den THEN q + 1
               ELSE IF q % 2 = 0 THEN q ELSE q + 1
        points(diff) ==
            IF diff < 5 THEN 10
            ELSE IF diff < 15 THEN 6
            ELSE IF Abs(diff - 60) < 5 THEN 4
            ELSE IF Abs(diff - 120) < 5 THEN 5
            ELSE IF Abs(diff - 90) < 5 THEN -3
            ELSE IF Abs(diff - 180) < 5 THEN -5
            ELSE 0
        RECURSIVE loop(_, _)
        loop(i, score) ==
            IF i > Len(PAIRS)
            THEN [kind |-> "return", value |-> round(76 * 50 + (score - 50) * 22, 50)]
            ELSE LET user_planet == dict_get(user_planets, PAIRS[i][1], Null)
                     crush_planet == dict_get(crush_planets, PAIRS[i][2], Null)
                 IN IF is_falsy(user_planet) \/ is_falsy(crush_planet) THEN loop(i + 1, score)
                    ELSE LET d0 == Abs(dict_get(user_planet, "longitude", 0)
                                           - dict_get(crush_planet, "longitude", 0)) % 360
                             diff == IF d0 > 180 THEN 360 - d0 ELSE d0
                         IN loop(i + 1, score + points(diff))
    IN IF user_planets = Null \/ crush_planets = Null
       THEN [kind |-> "raise", error |-> "AttributeError"]
       ELSE loop(1, 50)

\* Charts the pair-based scorer is tried on: each of Sun, Moon, Venus and
\* Mars absent or at one of two longitudes, a planet without longitude, an
\* empty planet record, null planets, a null chart and a chart kept as text.
PairCharts ==
    LET D(items) == [kind |-> "dict", items |-> items]
        At(planet, longitudes) ==
            {<<>>} \cup {(planet :> D([longitude |-> l])) : l \in longitudes}
        Full == {D([planets |-> D(su @@ mo @@ ve @@ ma)]) :
                     su \in At("Sun", {0, 90}), mo \in At("Moon", {0, 10}),
                     ve \in At("Venus", {0, 178}), ma \in At("Mars", {0, 241})}
    IN Full \cup {Null, EmptyDict, D([planets |-> Null]),
                  D([planets |-> D([Sun |-> EmptyDict, Moon |-> D([house |-> 7])])]),
                  [kind |-> "str", form |-> "object",
                   value |-> D([planets |-> D([Sun |-> D([longitude |-> 0])])])]}

CompatibilityScoreCall ==
    /\ fn = "calculate_compatibility_score"
    /\ ret = NoResult
    /\ ret' = calculate_compatibility_score(args[1], args[2])
    /\ UNCHANGED <<fn, args, merge_vars, store_vars, query_vars>>

AspectScoreCall ==
    /\ fn = "get_aspect_score"
    /\ ret = NoResult
    /\ ret' = [kind |-> "return", value |-> get_aspect_score(args[1])]
    /\ UNCHANGED <<fn, args, merge_vars, store_vars, query_vars>>

\* Longitudes are degrees of the zodiac; the second argument is taken from
\* the degrees around the quarter points of the circle.
Longitudes == 0..359

ProbeLongitudes == {0, 1, 90, 179, 180, 181, 270, 359}

AngleDiffCall ==
    /\ fn = "angle_diff"
    /\ ret = NoResult
    /\ ret' = [kind |-> "return", value |-> angle_diff(args[1], args[2])]
    /\ UNCHANGED <<fn, args, merge_vars, store_vars, query_vars>>

\* to_thread_retry(fn) is called with the default retries; args holds, for
\* each invocation fn may get, whether it returns
RetryCall ==
    /\ fn = "to_thread_retry"
    /\ ret = NoResult
    /\ ret' = to_thread_retry(args[1], Retries)
    /\ UNCHANGED <<fn, args, merge_vars, store_vars, query_vars>>

\* One call of one of the pure functions on arguments from the input sets.
InitCalls ==
    /\ InitProfile /\ InitStore /\ IdleQueries
    /\ \/ fn = "cosine_similarity" /\ args \in Vectors \X Vectors
       \/ fn = "deep_compatibility" /\ args \in Charts \X Charts
       \/ fn = "classify_connection" /\ args \in {<<score>> : score \in 0..100}
       \/ fn = "to_thread_retry" /\ args \in {<<o>> : o \in [1..(Retries + 1) -> BOOLEAN]}
       \/ fn = "get_aspect_score" /\ args \in {<<diff>> : diff \in 0..180}
       \/ fn = "angle_diff" /\ args \in Longitudes \X ProbeLongitudes
       \/ fn = "calculate_compatibility_score" /\ args \in PairCharts \X PairCharts
    /\ ret = NoResult

SpecCalls ==
    InitCalls /\ [][\/ CosineCall \/ DeepCompatibilityCall \/ ClassifyCall
                     \/ RetryCall \/ AspectScoreCall \/ AngleDiffCall
                     \/ CompatibilityScoreCall]_vars



\* C13: cosine_similarity(a, b) returns -1.0 when a or b is empty or has zero
\* norm over the compared components, and otherwise a value between -1.0 and
\* 1.0.
C13_CosineInUnitRange ==
    fn = "cosine_similarity" /\ ret # NoResult =>
        LET m == IF Len(args[1]) < Len(args[2]) THEN Len(args[1]) ELSE Len(args[2])
            ZeroNorm(v) == \A i \in 1..m : v[i] = 0
        IN  IF ZeroNorm(args[1]) \/ ZeroNorm(args[2])
            THEN ret = MinusOne
            ELSE ~float_lt(ret, MinusOne) /\ ~float_lt(One, ret)

\* the weighted planets with a record under "planets" in both parsed charts
SharedPlanets(a, b) ==
    LET pa == dict_get(safe_json(a), "planets", EmptyDict)
        pb == dict_get(safe_json(b), "planets", EmptyDict)
    IN IF pa = Null \/ pb = Null THEN {}
       ELSE {p \in DOMAIN PLANET_WEIGHTS : p \in DOMAIN pa.items /\ p \in DOMAIN pb.items}

\* both charts have an ascendant sign and the two signs map to one element
SameElement(a, b) ==
    LET sa == dict_get(safe_json(a), "ascendant", EmptyDict)
        sb == dict_get(safe_json(b), "ascendant", EmptyDict)
    IN /\ sa # Null /\ sb # Null
       /\ "sign" \in DOMAIN sa.items /\ "sign" \in DOMAIN sb.items
       /\ sa.items.sign \in DOMAIN SIGN_ELEMENTS /\ sb.items.sign \in DOMAIN SIGN_ELEMENTS
       /\ SIGN_ELEMENTS[sa.items.sign] = SIGN_ELEMENTS[sb.items.sign]

DeepReturned == fn = "deep_compatibility" /\ ret # NoResult /\ ret.kind = "return"

\* C14: a score deep_compatibility returns is an integer from 0 to 100, and
\* it is 0 when no weighted planet is present in both charts, also when both
\* ascendant signs map to the same element.
C14_ScoreInRange ==
    DeepReturned =>
        /\ ret.value \in 0..100
        /\ SharedPlanets(args[1], args[2]) = {} => ret.value = 0

\* C14 witness: both charts have planets, none in common, the ascendants are
\* Aries and Leo (both Fire), and the score returned is 0.
C14_Witness ==
    /\ DeepReturned
    /\ args[1].kind = "dict" /\ args[2].kind = "dict"
    /\ SharedPlanets(args[1], args[2]) = {}
    /\ SharedPlanets(args[1], args[1]) # {} /\ SharedPlanets(args[2], args[2]) # {}
    /\ SameElement(args[1], args[2])
    /\ ret.value = 0

\* the planets that are in house 7 in the first chart and in house 1 in the
\* second
SevenAndOne(a, b) ==
    {p \in SharedPlanets(a, b) :
        LET u == safe_json(a).items.planets.items[p]
            c == safe_json(b).items.planets.items[p]
        IN /\ u # Null /\ c # Null
           /\ "house" \in DOMAIN u.items /\ "house" \in DOMAIN c.items
           /\ u.items.house = 7 /\ c.items.house = 1}

\* the case of C15: a planet in house 7 in A and in house 1 in B, and both
\* deep_compatibility(A, B) and deep_compatibility(B, A) return a score
HouseCase ==
    /\ DeepReturned
    /\ SevenAndOne(args[1], args[2]) # {}
    /\ deep_compatibility(args[2], args[1]).kind = "return"

\* C15 as stated: with the same planet in house 7 in A and in house 1 in B,
\* deep_compatibility(A, B) differs from deep_compatibility(B, A).
C15_HouseMakesAsymmetric ==
    HouseCase => ret.value # deep_compatibility(args[2], args[1]).value

\* C15: with the same planet X in house 7 in A and in house 1 in B, the two
\* scores differ only if another weighted planet is present in both charts
\* or both ascendant signs map to the same element; with X the only shared
\* planet and no element bonus the scores are equal.
C15_AsymmetricOnlyWithMore ==
    HouseCase /\ ret.value # deep_compatibility(args[2], args[1]).value =>
        \/ Cardinality(SharedPlanets(args[1], args[2])) > 1
        \/ SameElement(args[1], args[2])

\* C15 witness: the Sun is in house 7 in A and in house 1 in B, the Moon is
\* in both charts too, no element bonus applies, and the scores differ.
C15_Witness ==
    /\ HouseCase
    /\ SharedPlanets(args[1], args[2]) = {"Sun", "Moon"}
    /\ ~SameElement(args[1], args[2])
    /\ ret.value # deep_compatibility(args[2], args[1]).value

\* C16: classify_connection(score) is soulmate exactly when score >= 85,
\* twin_flame exactly when 70 <= score < 85, karmic exactly when score < 70.
C16_ThresholdsAt85And70 ==
    fn = "classify_connection" /\ ret # NoResult =>
        /\ ret.value = "soulmate" <=> args[1] >= 85
        /\ ret.value = "twin_flame" <=> (70 <= args[1] /\ args[1] < 85)
        /\ ret.value = "karmic" <=> args[1] < 70

\* C19: deep_compatibility does not raise, whatever the two charts are.
C19_NeverRaises ==
    fn = "deep_compatibility" /\ ret # NoResult => ret.kind = "return"


\* ---------------------------------------------------------------------
\* GET /soul_of_anlasana_2_1/{user_id} (soul_of_anlasana_2_1.py)
\* ---------------------------------------------------------------------
TopN == 30
MaxCandidates == 32

skip_reason_none(other, user_id, target_gender, seen) == ""

skip_reason_gender_first(other, user_id, target_gender, seen) ==
    IF other.gender = target_gender THEN "same_gender"
    ELSE IF other.id = user_id THEN "same_user"
    ELSE IF is_falsy(other.chart) THEN "no_chart"
    ELSE IF \/ is_falsy(safe_json(other.chart))
            \/ is_falsy(dict_get(safe_json(other.chart), "planets", Null)) THEN "no_chart"
    ELSE IF (IF is_falsy(other.age) THEN 0 ELSE other.age.value) < 18 THEN "under_18"
    ELSE IF other.name \in seen THEN "duplicate_name"
    ELSE ""

skip_reason_any_name(other, user_id, target_gender, seen) ==
    IF other.id = user_id THEN "same_user"
    ELSE IF other.gender = target_gender THEN "same_gender"
    ELSE IF is_falsy(other.chart) THEN "no_chart"
    ELSE IF \/ is_falsy(safe_json(other.chart))
            \/ is_falsy(dict_get(safe_json(other.chart), "planets", Null)) THEN "no_chart"
    ELSE IF (IF is_falsy(other.age) THEN 0 ELSE other.age.value) < 18 THEN "under_18"
    ELSE ""

\* the filters of the candidate loop, in their order: the reason the
\* candidate is skipped for, "" when it is scored
skip_reason(other, user_id, target_gender, seen) ==
    IF other.id = user_id THEN "same_user"
    ELSE IF other.gender = target_gender THEN "same_gender"
    ELSE IF is_falsy(other.chart) THEN "no_chart"
    ELSE IF \/ is_falsy(safe_json(other.chart))
            \/ is_falsy(dict_get(safe_json(other.chart), "planets", Null)) THEN "no_chart"
    ELSE IF (IF is_falsy(other.age) THEN 0 ELSE other.age.value) < 18 THEN "under_18"
    ELSE IF other.name \in seen THEN "duplicate_name"
    ELSE ""

\* rpc_res is what the match_users RPC answered and table_res what the
\* fallback select answered, each Null when the call raised
fetch_top_psych_matches(vector, limit, rpc_res, table_res) ==
    IF rpc_res # Null THEN [kind |-> "return", value |-> rpc_res.rows]
    ELSE IF table_res = Null THEN [kind |-> "raise", error |-> "fallback"]
    ELSE [kind |-> "return", value |-> Slice(table_res.rows, limit)]

\* One request.  fetch_ok, fallback_ok and select_ok say whether the read of
\* the requester's row, the fallback select and the select of the candidate
\* rows succeed; rpc_res is the RPC's answer.  The result holds the response
\* body, the skip counters and the number of matches before the cut, which
\* the handler logs, the candidate list, and the step that raised ("" when
\* none did).  Of a match only the fields the
\* handler computes or tests are kept; the others are copied from the row.
soul_of_anlasana(user_id, table, fetch_ok, rpc_res, fallback_ok, select_ok) ==
    LET no_skips == [same_user |-> 0, same_gender |-> 0, no_chart |-> 0,
                     under_18 |-> 0, duplicate_name |-> 0]
        answer(matches, skipped, candidates, scored) ==
            [response |-> [user_id |-> user_id, matches |-> matches],
             skipped |-> skipped, candidates |-> candidates, scored |-> scored, failed |-> ""]
        error(at) ==
            [response |-> [user_id |-> user_id, error |-> at],
             skipped |-> no_skips, candidates |-> <<>>, scored |-> 0, failed |-> at]
        found == SelectSeq(table, LAMBDA r : r.id = user_id)
        user == IF found = <<>> THEN Null ELSE found[1]
        retrieved ==
            IF ~is_falsy(user.psych_vector)
            THEN LET match_results ==
                         fetch_top_psych_matches(user.psych_vector.items, 100, rpc_res,
                                                 IF fallback_ok THEN [rows |-> table] ELSE Null)
                              user_ids == {id \in {match_results.value[i].id : i \in DOMAIN match_results.value} :
                                     id \notin {None, ""}}
                 IN IF match_results.kind = "raise" THEN match_results
                    ELSE IF match_results.value = <<>> \/ user_ids = {}
                         THEN [kind |-> "return", value |-> <<>>]
                    ELSE IF ~select_ok THEN [kind |-> "raise", error |-> "select"]
                    ELSE [kind |-> "return",
                          value |-> SelectSeq(table, LAMBDA r : r.id \in user_ids)]
            ELSE IF ~select_ok THEN [kind |-> "raise", error |-> "select"]
            ELSE [kind |-> "return", value |-> Slice(table, 100)]
        \* matches.sort(key=match_percent, reverse=True): equal scores keep
        \* their order
        sort(matches) ==
            LET RECURSIVE insert(_, _)
                insert(s, e) ==
                    IF s = <<>> THEN <<e>>
                    ELSE IF Head(s).match_percent < e.match_percent THEN <<e>> \o s
                    ELSE <<Head(s)>> \o insert(Tail(s), e)
                RECURSIVE first(_)
                first(n) == IF n = 0 THEN <<>>
                            ELSE CHOOSE r \in {insert(f, matches[n]) : f \in {first(n - 1)}} : TRUE
            IN first(Len(matches))
        score_all(candidates) ==
            LET step(st) ==
                    LET other == candidates[st.i]
                        reason == skip_reason(other, user_id, user.gender, st.seen)
                        astrological_score == deep_compatibility(user.chart, other.chart)
                    IN IF reason # ""
                       THEN [st EXCEPT !.i = @ + 1, !.skipped[reason] = @ + 1]
                       ELSE IF astrological_score.kind = "raise"
                       THEN [st EXCEPT !.failed = "scoring"]
                       ELSE [st EXCEPT !.i = @ + 1, !.seen = @ \cup {other.name},
                                       !.matches = Append(@,
                                           [id |-> other.id, name |-> other.name,
                                            type |-> classify_connection(astrological_score.value),
                                            match_percent |-> astrological_score.value,
                                            age |-> other.age])]
                RECURSIVE loop(_)
                loop(st) ==
                    IF st.i > Len(candidates) \/ st.failed # "" THEN st
                    ELSE CHOOSE r \in {loop(n) : n \in {step(st)}} : TRUE
                finish(done) ==
                    IF done.failed # "" THEN error(done.failed)
                    ELSE answer(Slice(sort(done.matches), TopN), done.skipped, candidates,
                                Len(done.matches))
            IN \* the debug print slices the id of the first three candidates
               IF \E i \in 1..Len(Slice(candidates, 3)) : candidates[i].id = None
               THEN error("debug_print")
               ELSE CHOOSE r \in {finish(d) : d \in {loop([i |-> 1, matches |-> <<>>, seen |-> {},
                                                          skipped |-> no_skips, failed |-> ""])}} : TRUE
    IN IF ~fetch_ok THEN error("fetch_user")
       ELSE IF user = Null THEN answer(<<>>, no_skips, <<>>, 0)
       ELSE IF is_falsy(user.chart) \/ user.gender \in {None, ""} THEN answer(<<>>, no_skips, <<>>, 0)
       ELSE IF retrieved.kind = "raise" THEN error(retrieved.error)
       ELSE CHOOSE r \in {score_all(c) : c \in {retrieved.value}} : TRUE

\* The users table: the requester u0 followed by candidates.  Short tables
\* take up to two of twelve hand-made candidates, or all but the last, whose
\* chart makes the scoring raise; some candidates a filter rejects carry the
\* name of a candidate that passes them all; long
\* tables hold TopN - 2 .. MaxCandidates candidates who all pass the
\* filters, with four charts in rotation.
SoulTables ==
    LET D(items) == [kind |-> "dict", items |-> items]
        Age(n) == [kind |-> "int", value |-> n]
        Sun(longitude, house) == [Sun |-> D([longitude |-> longitude, house |-> house])]
        Chart(planets) == D([planets |-> D(planets)])
        target_chart == D([planets |-> D(Sun(0, 7) @@ [Moon |-> D([longitude |-> 120, house |-> 1])]),
                           ascendant |-> D([sign |-> "Aries"])])
        leo_chart == D([planets |-> D(Sun(0, 1) @@ [Moon |-> D([longitude |-> 185, house |-> 5])]),
                        ascendant |-> D([sign |-> "Leo"])])
        Row(id, gender, chart, age, name) ==
            [id |-> id, gender |-> gender, chart |-> chart, age |-> age, name |-> name,
             psych_vector |-> ListValue(<<3, 4>>)]
        Targets == {[id |-> "u0", gender |-> g, chart |-> c, age |-> Age(30), name |-> "Max",
                     psych_vector |-> v] :
                        g \in {"male", None}, c \in {target_chart, Null},
                        v \in {ListValue(<<3, 3>>), Null}}
        pool == << Row("c1", "female", leo_chart, Age(25), "Ann"),
                   Row("c2", "female", Chart(Sun(60, 1)), Age(18), "Bea"),
                   Row("c3", "female", Chart(Sun(0, 1)), Age(30), "Ann"),
                   Row("c4", "male", Chart(Sun(0, 1)), Age(40), "Bea"),
                   Row("c5", "female", Chart(Sun(0, 1)), Age(17), "Ann"),
                   Row("c6", "female", Chart(Sun(0, 1)), Null, "Eve"),
                   Row("c7", "female", Null, Age(22), "Bea"),
                   Row("c8", "female", [kind |-> "str", form |-> "invalid", value |-> Chart(Sun(0, 1))],
                       Age(22), "Gia"),
                   Row("c9", "female", D([ascendant |-> D([sign |-> "Leo"])]), Age(22), "Hoa"),
                   Row("c10", "female", [kind |-> "str", form |-> "object", value |-> Chart(Sun(0, 7))],
                       Age(22), "Max"),
                   Row("c11", "Female", Chart(Sun(94, 7)), Age(22), None),
                   Row("c12", None, Chart([Sun |-> D([house |-> 7])]), Age(22), "Joy") >>
        picks == {<<>>, [i \in 1..(Len(pool) - 1) |-> i]}
                     \cup {<<i>> : i \in 1..Len(pool)}
                     \cup {p \in (1..Len(pool)) \X (1..Len(pool)) : p[1] # p[2]}
        rotation == <<Chart(Sun(0, 1)), Chart(Sun(60, 1)), leo_chart, Chart(Sun(94, 7))>>
        Long(n, shift) ==
            [i \in 1..n |-> Row("c" \o ToString(i), "female", rotation[((i + shift) % 4) + 1],
                                Age(20), "n" \o ToString(i))]
    IN {<<t>> \o [i \in 1..Len(p) |-> pool[p[i]]] : t \in Targets, p \in picks}
           \cup {<<t>> \o Long(n, shift) : t \in {r \in Targets : ~is_falsy(r.chart) /\ r.gender = "male"},
                                           n \in (TopN - 2)..MaxCandidates, shift \in 0..3}

SoulRequests == [endpoint : {"soul_of_anlasana"}, user_id : {"u0", "u9"}]

InitSoul ==
    /\ InitProfile /\ InitStore /\ IdleCalls
    /\ users \in SoulTables
    /\ rq \in SoulRequests
    /\ rs = NoResult
    /\ IdleActions

\* The request is served.  The RPC answers with the rows that have a
\* psych_vector, with nothing, or raises; each read may raise.
SoulRequest ==
    /\ rq.endpoint = "soul_of_anlasana"
    /\ rs = NoResult
    /\ \E fetch_ok, fallback_ok, select_ok \in BOOLEAN,
          rpc_res \in {Null, [rows |-> <<>>],
                       [rows |-> SelectSeq(users, LAMBDA r : ~is_falsy(r.psych_vector))]} :
           rs' = soul_of_anlasana(rq.user_id, users, fetch_ok, rpc_res, fallback_ok, select_ok)
    /\ UNCHANGED <<users, rq, user_actions, notifications, merge_vars, store_vars, call_vars>>

SpecSoul == InitSoul /\ [][SoulRequest]_vars


SoulAnswered == rq.endpoint = "soul_of_anlasana" /\ rs # NoResult

SoulMatches == IF SoulAnswered /\ "matches" \in DOMAIN rs.response THEN rs.response.matches ELSE <<>>

\* the row of the users table with the given id
RowOf(id) == users[CHOOSE i \in 1..Len(users) : users[i].id = id]

\* C17: every match returned has an id and a gender different from the
\* requester's, a chart that parses to an object with planets, an age of at
\* least 18, and a name no other returned match has.
C17_MatchesPassFilters ==
    \A i \in 1..Len(SoulMatches) :
        LET m == SoulMatches[i]
            other == RowOf(m.id)
            chart == other.chart
        IN /\ m.id # rq.user_id
           /\ other.gender # RowOf(rq.user_id).gender
           /\ chart # Null
           /\ chart.kind = "dict" \/ (chart.kind = "str" /\ chart.form \in {"object", "quoted"})
           /\ LET parsed == IF chart.kind = "dict" THEN chart ELSE chart.value
              IN /\ "planets" \in DOMAIN parsed.items
                 /\ parsed.items.planets # Null
                 /\ DOMAIN parsed.items.planets.items # {}
           /\ other.age # Null
           /\ other.age.value >= 18
           /\ m.age = other.age
           /\ m.name = other.name
           /\ \A j \in 1..Len(SoulMatches) : j # i => SoulMatches[j].name # m.name

\* C17 witness: the table holds the requester, a candidate of the requester's
\* gender, candidates without a usable chart, candidates under 18 and two
\* candidates of one name, and the answer lists four matches.
C17_Witness ==
    /\ SoulAnswered
    /\ Len(SoulMatches) = 4
    /\ rs.skipped.same_user = 1 /\ rs.skipped.same_gender = 1 /\ rs.skipped.no_chart = 3
    /\ rs.skipped.under_18 = 2 /\ rs.skipped.duplicate_name = 1

\* the candidates of the request that pass the filters, as positions in the
\* candidate list: of several candidates of one name the first one
Survivors ==
    LET c == rs.candidates
        ok(i) == /\ c[i].id # rq.user_id
                 /\ c[i].gender # RowOf(rq.user_id).gender
                 /\ ~is_falsy(c[i].chart)
                 /\ ~is_falsy(dict_get(safe_json(c[i].chart), "planets", Null))
                 /\ ~is_falsy(c[i].age) /\ c[i].age.value >= 18
    IN {i \in 1..Len(c) : ok(i) /\ \A j \in 1..(i - 1) : ok(j) => c[j].name # c[i].name}

\* C18: the matches returned are in non-increasing match_percent order, at
\* most 30, each a surviving candidate with its score, as many as there are
\* survivors up to 30, and no survivor left out scores higher than a
\* returned one.
C18_TopThirtyByScore ==
    SoulAnswered /\ "matches" \in DOMAIN rs.response =>
        LET c == rs.candidates
            score(i) == deep_compatibility(RowOf(rq.user_id).chart, c[i].chart).value
            returned == {i \in Survivors : \E k \in 1..Len(SoulMatches) : SoulMatches[k].id = c[i].id}
        IN /\ Len(SoulMatches) <= 30
           /\ \A k \in 1..(Len(SoulMatches) - 1) :
                  SoulMatches[k].match_percent >= SoulMatches[k + 1].match_percent
           /\ Len(SoulMatches) = (IF Cardinality(Survivors) < 30 THEN Cardinality(Survivors) ELSE 30)
           /\ Cardinality(returned) = Len(SoulMatches)
           /\ \A k \in 1..Len(SoulMatches) :
                  \E i \in returned : /\ SoulMatches[k].id = c[i].id
                                      /\ SoulMatches[k].match_percent = score(i)
           /\ \A i \in returned, j \in Survivors \ returned : score(i) >= score(j)

\* C18 witness: 32 candidates survive, scored 100, 93, 50 and 0 in rotation,
\* and 30 matches are returned, the first at 100, the 24th at 50, the last
\* at 0.
C18_Witness ==
    /\ SoulAnswered
    /\ Cardinality(Survivors) = 32
    /\ Len(SoulMatches) = 30
    /\ SoulMatches[1].match_percent = 100
    /\ SoulMatches[24].match_percent = 50
    /\ SoulMatches[30].match_percent = 0

\* C20: a request in which the retrieval of the candidates or the scoring of
\* a candidate failed is answered with a matches list.
C20_FailureGivesMatches ==
    SoulAnswered /\ rs.failed \in {"fallback", "select", "scoring"} =>
        "matches" \in DOMAIN rs.response

\* ------------------------------------------------------------------------
\* Properties of the background task of /sana/chat
\* ------------------------------------------------------------------------
\* C21: a background task that runs alone ends with its whole update in the
\* row (the merged psych_map and the vector of its text) or with the row as
\* it read it.
C21_AllOrNothing ==
    [][\A t \in Tasks :
           (t_pc[t] \in {"bg_save", "embed"} /\ t_pc'[t] = "idle") =>
               \/ db_psych_map' = t_snap[t] /\ db_psych_vector' = db_psych_vector
               \/ /\ t_pc[t] = "embed"
                  /\ db_psych_map' = t_upd[t]
                  /\ db_psych_vector' = embed_sync(t_text[t])]_vars

\* C22: a background task in which exactly one invocation of one external
\* call failed (an extractor invocation before the update, or the embedding
\* call or the update in embed_and_store_user_vector) ends with the merged
\* psych_map and the vector of its text in the row, as a task without a
\* failure does.
C22_SingleFailureAbsorbed ==
    [][\A t \in Tasks :
           (/\ t_pc[t] = "embed" /\ t_pc'[t] = "idle"
            /\ \/ t_fault[t] = "retried_once" /\ t_fault'[t] = ""
               \/ t_fault[t] = "" /\ t_fault'[t] \in {"embedding", "store"}) =>
               /\ db_psych_map' = t_upd[t]
               /\ db_psych_vector' = embed_sync(t_text[t])]_vars

\* C26: to_thread_retry with retries=3 returns or raises after at most 3
\* invocations of fn: it returns the result of the first invocation that
\* succeeds and makes no further invocation, and it raises, with the
\* exception of the third invocation, only when all 3 have failed.
C26_RetryBounded ==
    fn = "to_thread_retry" /\ ret # NoResult =>
        LET ok == {i \in 1..3 : args[1][i]}
            first == CHOOSE i \in ok : \A j \in ok : i <= j
        IN /\ ret.kind \in {"return", "raise"}
           /\ ret.calls <= 3
           /\ ok # {} => ret.kind = "return" /\ ret.value = first /\ ret.calls = first
           /\ ok = {} => ret.kind = "raise" /\ ret.error = 3 /\ ret.calls = 3
           /\ ret.slept = 4 * ((2 ^ (IF ok # {} THEN first - 1 ELSE 3)) - 1)

\* C26 witness: the first two invocations fail and the third returns
C26_Witness ==
    /\ fn = "to_thread_retry"
    /\ args = <<<<FALSE, FALSE, TRUE, TRUE>>>>
    /\ ret # NoResult
    /\ ret.kind = "return" /\ ret.value = 3 /\ ret.calls = 3 /\ ret.slept = 12

\* The length of the shorter of the two arcs between two degrees of the circle
ShortestArc(x, y) ==
    LET arcs == {Abs(x - y + 360 * k) : k \in {-1, 0, 1}}
    IN CHOOSE a \in arcs : \A b \in arcs : a <= b

\* C23: get_aspect_score(d), d in 0..180, is +10 for d <= 10, +5 within 5 of
\* 60, -5 within 6 of 90, +7 within 8 of 120, -8 within 8 of 180 and 0
\* otherwise, the first matching definition winning; angle_diff(x, y) is
\* the shortest arc, lies in 0..180 and is the same for (y, x).
C23_AspectTable ==
    /\ fn = "get_aspect_score" /\ ret # NoResult =>
           LET d == args[1]
           IN ret.value = IF d <= 10 THEN 10
                          ELSE IF Abs(d - 60) <= 5 THEN 5
                          ELSE IF Abs(d - 90) <= 6 THEN -5
                          ELSE IF Abs(d - 120) <= 8 THEN 7
                          ELSE IF Abs(d - 180) <= 8 THEN -8
                          ELSE 0
    /\ fn = "angle_diff" /\ ret # NoResult =>
           /\ ret.value = ShortestArc(args[1], args[2])
           /\ ret.value \in 0..180
           /\ ret.value = angle_diff(args[2], args[1])

\* C23 witness: the last degree of the square's orb scores -5
C23_Witness == fn = "get_aspect_score" /\ args = <<96>> /\ ret # NoResult /\ ret.value = -5

\* C27: whatever calculate_compatibility_score returns for two charts lies
\* in the premium range 76..98.
C27_PremiumRange ==
    fn = "calculate_compatibility_score" /\ ret # NoResult /\ ret.kind = "return" =>
        ret.value \in 76..98

\* The skip reason of the i-th candidate of the request, stated filter by
\* filter: a filter applies when the ones before it do not; "" is for a
\* candidate no filter rejects.
FilterReason(i) ==
    LET c == rs.candidates
        requester == RowOf(rq.user_id)
        same_user(j) == c[j].id = rq.user_id
        same_gender(j) == c[j].gender = requester.gender
        no_chart(j) ==
            \/ c[j].chart = Null
            \/ c[j].chart.kind = "str" /\ c[j].chart.form \notin {"object", "quoted"}
            \/ LET parsed == IF c[j].chart.kind = "dict" THEN c[j].chart ELSE c[j].chart.value
               IN \/ "planets" \notin DOMAIN parsed.items
                  \/ parsed.items.planets = Null
                  \/ DOMAIN parsed.items.planets.items = {}
        under_18(j) == c[j].age = Null \/ c[j].age.value < 18
        passes(j) == ~same_user(j) /\ ~same_gender(j) /\ ~no_chart(j) /\ ~under_18(j)
    IN IF same_user(i) THEN "same_user"
       ELSE IF same_gender(i) THEN "same_gender"
       ELSE IF no_chart(i) THEN "no_chart"
       ELSE IF under_18(i) THEN "under_18"
       ELSE IF \E j \in 1..(i - 1) : passes(j) /\ c[j].name = c[i].name THEN "duplicate_name"
       ELSE ""

\* C24: when the candidate loop has run to its end, each skip counter is the
\* number of candidates whose first applying filter is that reason, the
\* matches found are the candidates no filter rejects, and the counters and
\* the matches found add up to the number of candidates; a request that
\* ends with an error of the loop has a candidate no filter rejects whose
\* scoring raises.
C24_EveryCandidateAccounted ==
    SoulAnswered =>
        /\ rs.failed = "" =>
               LET n(reason) == Cardinality({i \in 1..Len(rs.candidates) : FilterReason(i) = reason})
               IN /\ \A reason \in DOMAIN rs.skipped : rs.skipped[reason] = n(reason)
                  /\ rs.scored = n("")
                  /\ rs.skipped.same_user + rs.skipped.same_gender + rs.skipped.no_chart
                         + rs.skipped.under_18 + rs.skipped.duplicate_name + rs.scored
                     = Len(rs.candidates)
        /\ rs.failed = "scoring" =>
               \E i \in 1..Len(users) :
                   /\ users[i].id # rq.user_id
                   /\ users[i].gender # RowOf(rq.user_id).gender
                   /\ ~is_falsy(users[i].chart)
                   /\ ~is_falsy(users[i].age) /\ users[i].age.value >= 18
                   /\ deep_compatibility(RowOf(rq.user_id).chart, users[i].chart).kind = "raise"

\* C24 witness: of twelve candidates four are matches and eight are skipped,
\* at least one for each of the five reasons
C24_Witness ==
    /\ SoulAnswered
    /\ rs.failed = ""
    /\ Len(rs.candidates) = 12
    /\ rs.scored = 4
    /\ \A reason \in DOMAIN rs.skipped : rs.skipped[reason] >= 1

\* C29: of the candidates no filter other than the name filter rejects, the
\* ones returned are those with no such candidate of the same name before
\* them in the candidate list (all of them while there are at most 30),
\* whatever the scores; a candidate rejected by an earlier filter does not
\* make a later candidate of its name a duplicate.
C29_FirstOfNameOnly ==
    SoulAnswered /\ rs.failed = "" =>
        LET c == rs.candidates
            eligible == {i \in 1..Len(c) : FilterReason(i) \in {"", "duplicate_name"}}
            first == {i \in eligible : \A j \in eligible : j < i => c[j].name # c[i].name}
            returned(i) == \E k \in 1..Len(SoulMatches) : SoulMatches[k].id = c[i].id
        IN /\ \A i \in eligible \ first : ~returned(i)
           /\ Cardinality(first) <= 30 => \A i \in first : returned(i)
           /\ rs.skipped.duplicate_name = Cardinality(eligible \ first)

\* C29 witness: after the requester, a candidate of the requester's gender
\* named Bea is followed by an eligible candidate named Bea, who is returned
C29_Witness ==
    /\ SoulAnswered
    /\ rs.failed = ""
    /\ Len(rs.candidates) = 3
    /\ rs.candidates[2].name = "Bea" /\ rs.candidates[2].gender = "male"
    /\ rs.candidates[3].name = "Bea"
    /\ Len(SoulMatches) = 1 /\ SoulMatches[1].id = rs.candidates[3].id
    /\ rs.skipped.same_gender = 1 /\ rs.skipped.duplicate_name = 0

\* both tasks have ended a chat request whose calls all succeeded, embedding
\* and second update included
BothStored ==
    \A t \in Tasks : /\ t_pc[t] = "idle" /\ t_end[t] = "done" /\ t_fault[t] = ""
                     /\ t_upd[t] # EmptyMap

\* C25: when two chat background tasks have both stored their profile, the
\* row holds the psych_map and the psych_vector one of them wrote, whole:
\* what the other merged is there only if that task's map holds it too.
C25_LastWriterWins ==
    BothStored =>
        \E t \in Tasks : /\ db_psych_map = t_upd[t]
                         /\ db_psych_vector = embed_sync(t_text[t])

\* C25 witness: the two tasks read the same profile, each merged a trait
\* under a key of its own, and the row holds the map of the second without
\* the key of the first
C25_Witness ==
    /\ BothStored
    /\ t_snap[1] = t_snap[2]
    /\ db_psych_map = t_upd[2]
    /\ \E key \in DOMAIN t_upd[1] : key \notin DOMAIN db_psych_map

\* C28: once the chat background tasks have finished and no call failed, the
\* stored psych_vector is the embedding of the plaintext of the stored
\* psych_map (no vector for a profile without text), under any interleaving.
C28_VectorMatchesMap ==
    (\A t \in Tasks : t_pc[t] = "idle" /\ t_end[t] = "done" /\ t_fault[t] = "") =>
        \A keys \in Orders(DOMAIN db_psych_map) :
            LET text == psych_map_to_plaintext(keys, db_psych_map)
            IN db_psych_vector = IF text = <<>> THEN NullVector ELSE embed_sync(text)

\* ---------------------------------------------------------------------
\* The portal's user actions (soulmateportal/user_actions.py)
\* ---------------------------------------------------------------------

\* data.action.lower() on the action texts the requests carry, each text
\* taken as a whole
action_lower(action) ==
    CASE action = "Connect" -> "connect"
      [] action = "SKIP" -> "skip"
      [] OTHER -> action

\* One call on the table as it stands, every call to the store succeeding:
\* the answer (a 400 or the response body) and the table the call leaves.
record_action(table, data) ==
    LET user_id == data.user_id
        target_user_id == data.target_user_id
        action == action_lower(data.action)
        reciprocal == table[<<target_user_id, user_id>>] = "connect"
        is_match == reciprocal /\ action = "connect"
        updated == IF is_match
                   THEN [table EXCEPT ![<<target_user_id, user_id>>] = "matched"]
                   ELSE table
        record_action_value == IF is_match THEN "matched" ELSE action
    IN IF user_id = target_user_id \/ action \notin {"skip", "connect"}
       THEN [kind |-> "raise", error |-> 400, table |-> table]
       ELSE [kind |-> "return",
             value |-> [status |-> "ok", action |-> record_action_value, matched |-> is_match,
                        from |-> user_id, to |-> target_user_id],
             table |-> [updated EXCEPT ![<<user_id, target_user_id>>] = record_action_value]]

\* POST /user_action/, run to completion.  The target has a live websocket
\* (online) or the response is stored as a notification for it.
RecordAction ==
    \E data \in [user_id : ActionUsers, target_user_id : ActionUsers,
                 action : {"skip", "connect", "Connect", "SKIP", "like"}],
       online \in BOOLEAN :
        LET done == record_action(user_actions, data)
        IN /\ done.kind = "raise" \/ online \/ Len(notifications) < MaxNotifications
           /\ rq' = [endpoint |-> "user_action", data |-> data]
           /\ rs' = IF done.kind = "raise" THEN [kind |-> "raise", error |-> done.error]
                    ELSE [kind |-> "return", value |-> done.value]
           /\ user_actions' = done.table
           /\ notifications' =
                  IF done.kind = "return" /\ ~online
                  THEN Append(notifications, [user_id |-> data.target_user_id,
                                              payload |-> done.value, delivered |-> FALSE])
                  ELSE notifications
           /\ UNCHANGED <<users, merge_vars, store_vars, call_vars>>

SpecActions == Init /\ [][RecordAction]_vars

\* C30: after any sequence of record_action calls the action stored for a
\* user towards another is "matched" exactly when the action stored for the
\* other towards the user is "matched".
C30_MatchedBothWays ==
    \A user \in ActionUsers, other \in ActionUsers :
        user_actions[<<user, other>>] = "matched" <=> user_actions[<<other, user>>] = "matched"

====
